---- MODULE Spec2Model ----
(***************************************************************************)
(* Bounded-history containers of the history crate:                        *)
(*   Fixed<T, N>    history/src/list/fixed/mod.rs   (ring buffer)          *)
(*   FixedIter      history/src/list/fixed/mod.rs   (double ended iterator)*)
(*   Versioned<T>   history/src/versioned/mod.rs    (versioned map)        *)
(* Option<T> is modelled as a sequence of length 0 (None) or 1 (Some(v)),  *)
(* Result<T, ()> as <<"Ok", t>> or <<"Err">>.                              *)
(***************************************************************************)
EXTENDS Integers, Sequences, FiniteSets, TLC

\* ---------------------------------------------------------------- bounds
MaxN == 3
MaxVal == 2
MaxPush == 5
MaxCount == 4
MaxCap == 4
MaxVrPush == 6

Values == 1..MaxVal

None == <<>>
Some(v) == <<v>>
Ok(t) == <<"Ok", t>>
Err == <<"Err">>

VARIABLES
    N,          \* the const generic N of Fixed<T, N>
    fixed,      \* Option<Fixed>: None before construction
    iter,       \* Option<FixedIter>: the iterator borrowed from fixed
    op,         \* name of the last call
    arg,        \* argument of the last call
    result,     \* value returned by the last call
    q_result,   \* value the reference queue returns for the last call
    prev,       \* value of `fixed` before the last call
    queue,      \* reference FIFO queue run beside the buffer
    seed,       \* arguments of the constructor that built the buffer
    pushed,     \* values passed to push, in call order
    rets,       \* values returned by the logged calls, in call order
    out_next,   \* values yielded by next() on the current iterator
    out_back,   \* values yielded by next_back() on the current iterator
    end_next,   \* next() has returned None on the current iterator
    end_back,   \* next_back() has returned None on the current iterator
    versioned,  \* the Versioned struct
    v_prev,     \* value of `versioned` before the last call
    calls,      \* values passed to update, in call order
    assigned,   \* versions returned by update, in call order
    removed,    \* versions passed to a successful remove
    rwv_store,      \* RwVersioned: the BTreeMap behind the store RwLock
    rwv_count,      \* RwVersioned: the u64 behind the count Mutex
    count_lock,     \* Option<thread>: holder of the count Mutex
    count_poisoned, \* the count Mutex is poisoned
    store_writer,   \* Option<thread>: holder of the store write lock
    store_readers,  \* threads holding a read guard returned by store()
    store_poisoned, \* the store RwLock is poisoned
    th_pc,          \* per thread: position inside its current call
    th_version,     \* per thread: the local new_version of update
    th_value,       \* per thread: the argument of its current call
    rwv_ret,        \* what the call that returned last returned
    started,        \* number of update calls begun
    rwv_log,        \* <<version, value>> of every update that returned Ok
    rwv_dropped,    \* versions removed by a drop that returned a value
    rwf_inner,      \* RwFixed: Option of the Inner behind the RwLock
    rwf_poisoned,   \* the RwLock is poisoned
    rwf_writer,     \* Option<thread>: holder of the write guard
    rwf_readers,    \* threads holding a read guard
    rwf_pc,         \* per thread: position inside its current call
    rwf_arg,        \* per thread: the argument of its current call
    rwf_ret,        \* what the call that returned last returned
    rwf_handle,     \* per thread: Option of the Value or Iter it holds
    rwf_ref,        \* Option of the &T a thread got from its Value
    rwf_deref,      \* Option of the last read through that &T
    ser_orig,       \* Option of the structure handed to serialize
    ser_payload,    \* Option of the serialized payload
    ser_back,       \* Option of the Result deserialize returned
    varied,         \* Option<Varied>: None before construction
    vr_call,        \* the last Varied call: name, argument, result, state before
    vr_count        \* Varied: number of values handed to the buffer so far

callVars == <<op, arg, result>>
fixedVars == <<N, fixed, iter, q_result, prev, queue, seed, pushed, rets,
               out_next, out_back, end_next, end_back>>
versionedVars == <<versioned, v_prev, calls, assigned, removed>>
rwvVars == <<rwv_store, rwv_count, count_lock, count_poisoned, store_writer,
             store_readers, store_poisoned, th_pc, th_version, th_value,
             rwv_ret, started, rwv_log, rwv_dropped>>
rwfVars == <<rwf_inner, rwf_poisoned, rwf_writer, rwf_readers, rwf_pc, rwf_arg,
             rwf_ret, rwf_handle, rwf_ref, rwf_deref>>
serdeVars == <<ser_orig, ser_payload, ser_back>>
variedVars == <<varied, vr_call, vr_count>>
extVars == <<serdeVars, variedVars>>
vars == <<callVars, fixedVars, versionedVars, rwfVars, rwvVars, extVars>>

Slots == 0..(N - 1)
Arrays == [Slots -> Values]

Min(a, b) == IF a < b THEN a ELSE b
Last(s) == s[Len(s)]
Reverse(s) == [i \in 1..Len(s) |-> s[Len(s) + 1 - i]]
Range(s) == {s[i] : i \in 1..Len(s)}

IsPrefix(s, t) == Len(s) <= Len(t) /\ \A i \in 1..Len(s) : s[i] = t[i]

\* ------------------------------------------------------------------ Fixed
Fixed_new ==
    [list |-> [i \in Slots |-> None], next |-> 0, oldest |-> 0, stored |-> 0]

Fixed_with_list(given) ==
    [list |-> [i \in Slots |-> Some(given[i])],
     next |-> 0, oldest |-> 0, stored |-> N]

Fixed_with_index_offbyone(given, index) ==
    IF index >= N THEN None
    ELSE Some([list |-> [i \in Slots |-> Some(given[i])],
               next |-> index, oldest |-> index, stored |-> N])

Fixed_with_index(given, index) ==
    IF index >= N THEN None
    ELSE LET oldest == IF index = N - 1 THEN 0 ELSE index + 1
         IN  Some([list |-> [i \in Slots |-> Some(given[i])],
                   next |-> oldest, oldest |-> oldest, stored |-> N])

\* push with the write done before the old slot value is read
Fixed_push_returns_new(f, v) ==
    LET next == (f.next + 1) % N
    IN  [self |-> [list   |-> [f.list EXCEPT ![f.next] = Some(v)],
                   next   |-> next,
                   oldest |-> IF f.stored = N THEN next ELSE f.oldest,
                   stored |-> IF f.stored = N THEN f.stored ELSE f.stored + 1],
         rtn  |-> Some(v)]

\* push that leaves oldest alone when the buffer is full
Fixed_push_stale_oldest(f, v) ==
    LET next == (f.next + 1) % N
    IN  [self |-> [list   |-> [f.list EXCEPT ![f.next] = Some(v)],
                   next   |-> next,
                   oldest |-> f.oldest,
                   stored |-> IF f.stored = N THEN f.stored ELSE f.stored + 1],
         rtn  |-> f.list[f.next]]

\* push that counts the value also when the buffer is full
Fixed_push_miscount(f, v) ==
    LET next == (f.next + 1) % N
    IN  [self |-> [list   |-> [f.list EXCEPT ![f.next] = Some(v)],
                   next   |-> next,
                   oldest |-> IF f.stored = N THEN next ELSE f.oldest,
                   stored |-> f.stored + 1],
         rtn  |-> f.list[f.next]]

Fixed_push(f, v) ==
    LET rtn  == f.list[f.next]
        next == (f.next + 1) % N
    IN  [self |-> [list   |-> [f.list EXCEPT ![f.next] = Some(v)],
                   next   |-> next,
                   oldest |-> IF f.stored = N THEN next ELSE f.oldest,
                   stored |-> IF f.stored = N THEN f.stored ELSE f.stored + 1],
         rtn  |-> rtn]

\* pop that hands the value out and leaves a copy in the slot
Fixed_pop_keeps_slot(f) ==
    IF f.stored = 0 THEN [self |-> f, rtn |-> None]
    ELSE [self |-> [f EXCEPT !.oldest = (f.oldest + 1) % N,
                             !.stored = f.stored - 1],
          rtn  |-> f.list[f.oldest]]

\* pop that takes the newest value and moves next back onto its slot
Fixed_pop_newest(f) ==
    IF f.stored = 0 THEN [self |-> f, rtn |-> None]
    ELSE LET newest == IF f.next = 0 THEN N - 1 ELSE f.next - 1
         IN  [self |-> [list   |-> [f.list EXCEPT ![newest] = None],
                        next   |-> newest,
                        oldest |-> f.oldest,
                        stored |-> f.stored - 1],
              rtn  |-> f.list[newest]]

Fixed_pop(f) ==
    IF f.stored = 0 THEN [self |-> f, rtn |-> None]
    ELSE [self |-> [list   |-> [f.list EXCEPT ![f.oldest] = None],
                    next   |-> f.next,
                    oldest |-> (f.oldest + 1) % N,
                    stored |-> f.stored - 1],
          rtn  |-> f.list[f.oldest]]

Fixed_newest_index(f) == IF f.next = 0 THEN N - 1 ELSE f.next - 1

Fixed_newest(f) == f.list[Fixed_newest_index(f)]

Fixed_oldest(f) == f.list[f.oldest]

Fixed_stored(f) == f.stored

\* get whose wrap-around lands one slot too low
Fixed_get_wrap_low(f, given) ==
    IF given >= N THEN Err
    ELSE LET index == Fixed_newest_index(f)
         IN  Ok(f.list[IF index < given THEN N - (given - index) - 1
                       ELSE index - given])

\* get whose range check lets distance N through
Fixed_get_check_gt(f, given) ==
    IF given > N THEN Err
    ELSE LET index == Fixed_newest_index(f)
         IN  Ok(f.list[IF index < given THEN N - (given - index)
                       ELSE index - given])

Fixed_get(f, given) ==
    IF given >= N THEN Err
    ELSE LET index == Fixed_newest_index(f)
         IN  Ok(f.list[IF index < given THEN N - (given - index)
                       ELSE index - given])

\* -------------------------------------------------------------- FixedIter
\* iterator whose forward cursor starts at the write position
Fixed_iter_from_next(f) ==
    [backward |-> f.next, backward_count |-> 0,
     forward |-> f.oldest, forward_count |-> 0]

Fixed_iter(f) ==
    [backward |-> Fixed_newest_index(f), backward_count |-> 0,
     forward |-> f.oldest, forward_count |-> 0]

FixedIter_next(f, it) ==
    IF it.backward_count = f.stored THEN [self |-> it, rtn |-> None]
    ELSE [self |-> [it EXCEPT !.backward = IF it.backward = 0 THEN N - 1
                                           ELSE it.backward - 1,
                              !.backward_count = it.backward_count + 1],
          rtn  |-> f.list[it.backward]]

FixedIter_next_back(f, it) ==
    IF it.forward_count = f.stored THEN [self |-> it, rtn |-> None]
    ELSE [self |-> [it EXCEPT !.forward = IF it.forward = N - 1 THEN 0
                                          ELSE it.forward + 1,
                              !.forward_count = it.forward_count + 1],
          rtn  |-> f.list[it.forward]]

\* ---------------------------------------------------------- Fixed actions
F == fixed[1]
It == iter[1]
NoSeed == [ctor |-> "none", given |-> <<>>, index |-> 0]

NoCall ==
    /\ op = "init"
    /\ arg = None
    /\ result = None

NoFixed ==
    /\ fixed = None
    /\ iter = None
    /\ q_result = None
    /\ prev = None
    /\ queue = <<>>
    /\ seed = NoSeed
    /\ pushed = <<>>
    /\ rets = <<>>
    /\ out_next = <<>>
    /\ out_back = <<>>
    /\ end_next = FALSE
    /\ end_back = FALSE

iterVars == <<iter, out_next, out_back, end_next, end_back>>

\* Fixed::new()
DoNew ==
    /\ fixed = None
    /\ fixed' = Some(Fixed_new)
    /\ op' = "new"
    /\ arg' = None
    /\ result' = fixed'
    /\ q_result' = None
    /\ prev' = fixed
    /\ queue' = <<>>
    /\ UNCHANGED <<N, iterVars, versionedVars, rwvVars, extVars>>

\* Fixed::with_list(given)
DoWithList(given) ==
    /\ fixed = None
    /\ fixed' = Some(Fixed_with_list(given))
    /\ op' = "with_list"
    /\ arg' = given
    /\ result' = fixed'
    /\ q_result' = None
    /\ prev' = fixed
    /\ queue' = [j \in 1..N |-> given[j - 1]]
    /\ UNCHANGED <<N, iterVars, versionedVars, rwvVars, extVars>>

\* Fixed::with_index(given, index); the buffer exists only when Some is returned
DoWithIndex(given, index) ==
    /\ fixed = None
    /\ fixed' = Fixed_with_index(given, index)
    /\ op' = "with_index"
    /\ arg' = index
    /\ result' = fixed'
    /\ q_result' = None
    /\ prev' = fixed
    /\ queue' = IF index < N THEN [j \in 1..N |-> given[(index + j) % N]]
                ELSE <<>>
    /\ UNCHANGED <<N, iterVars, versionedVars, rwvVars, extVars>>

\* Fixed::push(v); &mut self, so no iterator is alive
DoPush(v) ==
    /\ fixed # None
    /\ iter = None
    /\ LET r == Fixed_push(F, v)
       IN  /\ fixed' = Some(r.self)
           /\ result' = r.rtn
    /\ op' = "push"
    /\ arg' = v
    /\ prev' = fixed
    /\ q_result' = IF Len(queue) = N THEN Some(Head(queue)) ELSE None
    /\ queue' = IF Len(queue) = N THEN Append(Tail(queue), v)
                ELSE Append(queue, v)
    /\ UNCHANGED <<N, iterVars, versionedVars, rwvVars, extVars>>

\* Fixed::pop(); &mut self, so no iterator is alive
DoPop ==
    /\ fixed # None
    /\ iter = None
    /\ LET r == Fixed_pop(F)
       IN  /\ fixed' = Some(r.self)
           /\ result' = r.rtn
    /\ op' = "pop"
    /\ arg' = None
    /\ prev' = fixed
    /\ q_result' = IF queue = <<>> THEN None ELSE Some(Head(queue))
    /\ queue' = IF queue = <<>> THEN <<>> ELSE Tail(queue)
    /\ UNCHANGED <<N, iterVars, versionedVars, rwvVars, extVars>>

logVars == <<seed, pushed, rets>>

\* the constructors log their name only
Built(ctor) ==
    /\ seed' = [ctor |-> ctor, given |-> <<>>, index |-> 0]
    /\ UNCHANGED <<pushed, rets, rwfVars>>

New == DoNew /\ Built("new")
WithList(given) == DoWithList(given) /\ Built("with_list")
WithIndex(given, index) == DoWithIndex(given, index) /\ Built("with_index")
Push(v) == DoPush(v) /\ UNCHANGED <<logVars, rwfVars>>
Pop == DoPop /\ UNCHANGED <<logVars, rwfVars>>

\* Fixed::get(given); &self
Get(given) ==
    /\ fixed # None
    /\ result' = Fixed_get(F, given)
    /\ op' = "get"
    /\ arg' = given
    /\ prev' = fixed
    /\ q_result' = None
    /\ UNCHANGED <<N, fixed, queue, seed, pushed, rets, iterVars, versionedVars,
                   rwfVars, rwvVars, extVars>>

\* Fixed::iter(); the iterator borrows the buffer until it is dropped
Iter ==
    /\ fixed # None
    /\ iter = None
    /\ iter' = Some(Fixed_iter(F))
    /\ out_next' = <<>>
    /\ out_back' = <<>>
    /\ end_next' = FALSE
    /\ end_back' = FALSE
    /\ op' = "iter"
    /\ arg' = None
    /\ result' = None
    /\ q_result' = None
    /\ prev' = fixed
    /\ UNCHANGED <<N, fixed, queue, seed, pushed, rets, versionedVars,
                   rwfVars, rwvVars, extVars>>

\* FixedIter::next()
IterNext ==
    /\ iter # None
    /\ LET r == FixedIter_next(F, It)
       IN  /\ iter' = Some(r.self)
           /\ result' = r.rtn
           /\ out_next' = out_next \o r.rtn
           /\ end_next' = (end_next \/ r.rtn = None)
    /\ op' = "next"
    /\ arg' = None
    /\ q_result' = None
    /\ prev' = fixed
    /\ UNCHANGED <<N, fixed, queue, seed, pushed, rets, out_back, end_back,
                   versionedVars, rwfVars, rwvVars, extVars>>

\* FixedIter::next_back()
IterNextBack ==
    /\ iter # None
    /\ LET r == FixedIter_next_back(F, It)
       IN  /\ iter' = Some(r.self)
           /\ result' = r.rtn
           /\ out_back' = out_back \o r.rtn
           /\ end_back' = (end_back \/ r.rtn = None)
    /\ op' = "next_back"
    /\ arg' = None
    /\ q_result' = None
    /\ prev' = fixed
    /\ UNCHANGED <<N, fixed, queue, seed, pushed, rets, out_next, end_next,
                   versionedVars, rwfVars, rwvVars, extVars>>

\* the iterator goes out of scope
IterDrop ==
    /\ iter # None
    /\ iter' = None
    /\ out_next' = <<>>
    /\ out_back' = <<>>
    /\ end_next' = FALSE
    /\ end_back' = FALSE
    /\ op' = "drop_iter"
    /\ arg' = None
    /\ result' = None
    /\ q_result' = None
    /\ prev' = fixed
    /\ UNCHANGED <<N, fixed, queue, seed, pushed, rets, versionedVars,
                   rwfVars, rwvVars, extVars>>

\* -------------------------------------------------------------- Versioned
BTreeMap_new == [k \in {} |-> None]

BTreeMap_insert(m, key, value) ==
    [k \in DOMAIN m \cup {key} |-> IF k = key THEN value ELSE m[k]]

BTreeMap_remove(m, key) == [k \in DOMAIN m \ {key} |-> m[k]]

BTreeMap_get(m, key) == IF key \in DOMAIN m THEN Some(m[key]) ELSE None

Versioned_new == [store |-> BTreeMap_new, count |-> 0]

\* update that takes the version after the increment
Versioned_update_late_version(s, value) ==
    LET version == s.count + 1
    IN  [self |-> [store |-> BTreeMap_insert(s.store, version, value),
                   count |-> s.count + 1],
         rtn  |-> version]

Versioned_update(s, value) ==
    LET version == s.count
    IN  [self |-> [store |-> BTreeMap_insert(s.store, version, value),
                   count |-> s.count + 1],
         rtn  |-> version]

\* remove that gives the version back when the last assigned one is removed
Versioned_remove_reclaim(s, version) ==
    [self |-> [store |-> BTreeMap_remove(s.store, version),
               count |-> IF version \in DOMAIN s.store /\ version + 1 = s.count
                         THEN version ELSE s.count],
     rtn  |-> BTreeMap_get(s.store, version)]

\* remove that also drops every later version
Versioned_remove_split_off(s, version) ==
    [self |-> [store |-> [k \in {j \in DOMAIN s.store : j < version}
                            |-> s.store[k]],
               count |-> s.count],
     rtn  |-> BTreeMap_get(s.store, version)]

Versioned_remove(s, version) ==
    [self |-> [store |-> BTreeMap_remove(s.store, version),
               count |-> s.count],
     rtn  |-> BTreeMap_get(s.store, version)]

Versioned_get(s, version) == BTreeMap_get(s.store, version)

BTreeMap_last_key_value(m) ==
    IF DOMAIN m = {} THEN None
    ELSE LET key == CHOOSE k \in DOMAIN m : \A j \in DOMAIN m : j <= k
         IN  Some(<<key, m[key]>>)

Versioned_latest(s) ==
    LET kv == BTreeMap_last_key_value(s.store)
    IN  IF kv = None THEN None ELSE Some(kv[1][2])

\* latest_version that looks up the last version assigned
Versioned_latest_version_by_count(s) ==
    IF s.count = 0 \/ (s.count - 1) \notin DOMAIN s.store THEN None
    ELSE Some(<<s.count - 1, s.store[s.count - 1]>>)

Versioned_latest_version(s) == BTreeMap_last_key_value(s.store)

NoVersioned ==
    /\ versioned = Versioned_new
    /\ v_prev = Versioned_new
    /\ calls = <<>>
    /\ assigned = <<>>
    /\ removed = {}

\* Versioned::update(value); the counter is capped at MaxCount
Update(value) ==
    /\ versioned.count < MaxCount
    /\ LET r == Versioned_update(versioned, value)
       IN  /\ versioned' = r.self
           /\ result' = r.rtn
           /\ assigned' = Append(assigned, r.rtn)
    /\ calls' = Append(calls, value)
    /\ v_prev' = versioned
    /\ op' = "update"
    /\ arg' = value
    /\ UNCHANGED <<removed, fixedVars, rwfVars, rwvVars, extVars>>

\* Versioned::remove(version)
Remove(version) ==
    /\ LET r == Versioned_remove(versioned, version)
       IN  /\ versioned' = r.self
           /\ result' = r.rtn
           /\ removed' = IF r.rtn = None THEN removed
                         ELSE removed \cup {version}
    /\ v_prev' = versioned
    /\ op' = "remove"
    /\ arg' = version
    /\ UNCHANGED <<calls, assigned, fixedVars, rwfVars, rwvVars, extVars>>

\* ------------------------------------------------------ versioned/sync.rs
\* RwVersioned: store: RwLock<BTreeMap<u64, T>>, count: Mutex<u64>, used by
\* MaxThreads threads that begin at most MaxUpdates updates in total.
MaxThreads == 2
MaxUpdates == 3

Threads == 1..MaxThreads

ErrCountPoisoned == <<"Err", "CountPoisoned">>
ErrStorePoisoned == <<"Err", "StorePoisoned">>

RwVersioned_new == [store |-> BTreeMap_new, count |-> 0]

\* what the call named name returned
Returned(name, val) == [op |-> name, val |-> val]

NoRwVersioned ==
    /\ rwv_store = RwVersioned_new.store
    /\ rwv_count = RwVersioned_new.count
    /\ count_lock = None
    /\ count_poisoned = FALSE
    /\ store_writer = None
    /\ store_readers = {}
    /\ store_poisoned = FALSE
    /\ th_pc = [t \in Threads |-> "idle"]
    /\ th_version = [t \in Threads |-> 0]
    /\ th_value = [t \in Threads |-> 0]
    /\ rwv_ret = Returned("none", None)
    /\ started = 0
    /\ rwv_log = <<>>
    /\ rwv_dropped = {}

rwvOthers == <<callVars, fixedVars, versionedVars, rwfVars, extVars>>

\* update that never increments the counter
UpdateSteps_no_incr ==
    <<"u_lock_count", "u_read", "u_lock_store", "u_insert", "u_unlock_store",
      "u_unlock_count">>

\* update that returns without dropping the count guard
UpdateSteps_count_kept ==
    <<"u_lock_count", "u_read", "u_lock_store", "u_insert", "u_unlock_store",
      "u_incr">>

\* update that copies the counter before it locks the count mutex
UpdateSteps_read_unlocked ==
    <<"u_read", "u_lock_count", "u_lock_store", "u_insert", "u_unlock_store",
      "u_incr", "u_unlock_count">>

\* update that increments and releases the counter before it inserts
UpdateSteps_release_early ==
    <<"u_lock_count", "u_read", "u_incr", "u_unlock_count", "u_lock_store",
      "u_insert", "u_unlock_store">>

\* update that releases the count mutex before it increments the counter
UpdateSteps_incr_unlocked ==
    <<"u_lock_count", "u_read", "u_lock_store", "u_insert", "u_unlock_store",
      "u_unlock_count", "u_incr">>

\* update that keeps the store write guard until after the increment
UpdateSteps_store_held ==
    <<"u_lock_count", "u_read", "u_lock_store", "u_insert", "u_incr",
      "u_unlock_store", "u_unlock_count">>

\* The statements of RwVersioned::update in program order: lock count, copy
\* the counter into new_version, write-lock store, insert, drop the store
\* guard at the end of the block, increment, drop the count guard on return.
UpdateSteps ==
    <<"u_lock_count", "u_read", "u_lock_store", "u_insert", "u_unlock_store",
      "u_incr", "u_unlock_count">>

Following(s) ==
    LET i == CHOOSE j \in 1..Len(UpdateSteps) : UpdateSteps[j] = s
    IN  IF i = Len(UpdateSteps) THEN "idle" ELSE UpdateSteps[i + 1]

\* thread t returns val from the call named name; its locals go out of scope
Return(t, name, val) ==
    /\ th_pc' = [th_pc EXCEPT ![t] = "idle"]
    /\ rwv_ret' = Returned(name, val)
    /\ th_version' = [th_version EXCEPT ![t] = 0]
    /\ th_value' = [th_value EXCEPT ![t] = 0]

\* thread t has executed statement s of update; after the last statement the
\* call returns Ok(new_version)
Advance(t, s) ==
    IF Following(s) = "idle"
    THEN /\ Return(t, "update", Ok(th_version[t]))
         /\ rwv_log' = Append(rwv_log, <<th_version[t], th_value[t]>>)
    ELSE /\ th_pc' = [th_pc EXCEPT ![t] = Following(s)]
         /\ rwv_log' = rwv_log
         /\ UNCHANGED <<th_version, th_value, rwv_ret>>

\* the error update maps a poisoned count mutex to
Update_count_err == ErrCountPoisoned

\* the error update maps a poisoned store lock to
Update_store_err_swapped == ErrCountPoisoned

Update_store_err == ErrStorePoisoned

\* A call of update(value) begins.  The specifications pass the number of
\* the call as its value, so that every entry tells which call wrote it.
UpdateCall(t, value) ==
    /\ th_pc[t] = "idle"
    /\ started < MaxUpdates
    /\ started' = started + 1
    /\ th_pc' = [th_pc EXCEPT ![t] = UpdateSteps[1]]
    /\ th_value' = [th_value EXCEPT ![t] = value]
    /\ UNCHANGED <<rwv_store, rwv_count, count_lock, count_poisoned,
                   store_writer, store_readers, store_poisoned, th_version,
                   rwv_ret, rwv_log, rwv_dropped, rwvOthers>>

\* self.count.lock().map_err(|_| Error::CountPoisoned)?
UpdateLockCount(t) ==
    /\ th_pc[t] = "u_lock_count"
    /\ count_lock = None
    /\ IF count_poisoned
       THEN /\ Return(t, "update", Update_count_err)
            /\ UNCHANGED <<count_lock, rwv_log>>
       ELSE /\ count_lock' = Some(t)
            /\ Advance(t, "u_lock_count")
    /\ UNCHANGED <<rwv_store, rwv_count, count_poisoned, store_writer,
                   store_readers, store_poisoned, started, rwv_dropped,
                   rwvOthers>>

\* let new_version = *count_lock
UpdateRead(t) ==
    /\ th_pc[t] = "u_read"
    /\ th_version' = [th_version EXCEPT ![t] = rwv_count]
    /\ th_pc' = [th_pc EXCEPT ![t] = Following("u_read")]
    /\ UNCHANGED <<rwv_store, rwv_count, count_lock, count_poisoned,
                   store_writer, store_readers, store_poisoned, th_value,
                   rwv_ret, started, rwv_log, rwv_dropped, rwvOthers>>

\* self.store.write().map_err(|_| Error::StorePoisoned)?  The early return
\* drops the count guard the thread holds.
UpdateLockStore(t) ==
    /\ th_pc[t] = "u_lock_store"
    /\ store_writer = None
    /\ store_readers = {}
    /\ IF store_poisoned
       THEN /\ Return(t, "update", Update_store_err)
            /\ count_lock' = IF count_lock = Some(t) THEN None ELSE count_lock
            /\ UNCHANGED <<store_writer, rwv_log>>
       ELSE /\ store_writer' = Some(t)
            /\ Advance(t, "u_lock_store")
            /\ UNCHANGED count_lock
    /\ UNCHANGED <<rwv_store, rwv_count, count_poisoned, store_readers,
                   store_poisoned, started, rwv_dropped, rwvOthers>>

\* store_writer.insert(new_version, value)
UpdateInsert(t) ==
    /\ th_pc[t] = "u_insert"
    /\ rwv_store' = BTreeMap_insert(rwv_store, th_version[t], th_value[t])
    /\ Advance(t, "u_insert")
    /\ UNCHANGED <<rwv_count, count_lock, count_poisoned, store_writer,
                   store_readers, store_poisoned, started, rwv_dropped,
                   rwvOthers>>

\* the end of the block drops store_writer
UpdateUnlockStore(t) ==
    /\ th_pc[t] = "u_unlock_store"
    /\ store_writer' = IF store_writer = Some(t) THEN None ELSE store_writer
    /\ Advance(t, "u_unlock_store")
    /\ UNCHANGED <<rwv_store, rwv_count, count_lock, count_poisoned,
                   store_readers, store_poisoned, started, rwv_dropped,
                   rwvOthers>>

\* *count_lock += 1
UpdateIncr(t) ==
    /\ th_pc[t] = "u_incr"
    /\ rwv_count' = rwv_count + 1
    /\ Advance(t, "u_incr")
    /\ UNCHANGED <<rwv_store, count_lock, count_poisoned, store_writer,
                   store_readers, store_poisoned, started, rwv_dropped,
                   rwvOthers>>

\* the return drops count_lock
UpdateUnlockCount(t) ==
    /\ th_pc[t] = "u_unlock_count"
    /\ count_lock' = IF count_lock = Some(t) THEN None ELSE count_lock
    /\ Advance(t, "u_unlock_count")
    /\ UNCHANGED <<rwv_store, rwv_count, count_poisoned, store_writer,
                   store_readers, store_poisoned, started, rwv_dropped,
                   rwvOthers>>

\* the locks and the data, which count(), store() and the guard's release
\* leave alone
rwvData == <<rwv_store, rwv_count, count_lock, count_poisoned, store_writer,
             store_poisoned, started, rwv_log, rwv_dropped>>

\* what count() returns once it has the mutex
RwVersioned_count_result(poisoned, count) ==
    IF poisoned THEN ErrCountPoisoned ELSE Ok(count)

\* RwVersioned::count(): lock the mutex, copy the counter, unlock
Count(t) ==
    /\ th_pc[t] = "idle"
    /\ count_lock = None
    /\ Return(t, "count", RwVersioned_count_result(count_poisoned, rwv_count))
    /\ UNCHANGED <<rwvData, store_readers, rwvOthers>>

\* RwVersioned::store(): the read guard stays with the caller
Store(t) ==
    /\ th_pc[t] = "idle"
    /\ t \notin store_readers
    /\ store_writer = None
    /\ IF store_poisoned
       THEN /\ Return(t, "store", ErrStorePoisoned)
            /\ UNCHANGED store_readers
       ELSE /\ Return(t, "store", Ok("guard"))
            /\ store_readers' = store_readers \cup {t}
    /\ UNCHANGED <<rwvData, rwvOthers>>

\* the caller drops the guard store() returned
StoreRelease(t) ==
    /\ th_pc[t] = "idle"
    /\ t \in store_readers
    /\ store_readers' = store_readers \ {t}
    /\ UNCHANGED <<rwvData, th_pc, th_version, th_value, rwv_ret, rwvOthers>>

\* RwVersioned::drop(version): self.store.write()
\*     .map_err(|_| Error::StorePoisoned)?
DropLock(t, version) ==
    /\ th_pc[t] = "idle"
    /\ store_writer = None
    /\ store_readers = {}
    /\ IF store_poisoned
       THEN /\ Return(t, "drop", ErrStorePoisoned)
            /\ UNCHANGED store_writer
       ELSE /\ store_writer' = Some(t)
            /\ th_pc' = [th_pc EXCEPT ![t] = "d_remove"]
            /\ th_value' = [th_value EXCEPT ![t] = version]
            /\ UNCHANGED <<th_version, rwv_ret>>
    /\ UNCHANGED <<rwv_store, rwv_count, count_lock, count_poisoned,
                   store_readers, store_poisoned, started, rwv_log,
                   rwv_dropped, rwvOthers>>

\* Ok(store_writer.remove(version)), dropping the write guard
DropRemove(t) ==
    /\ th_pc[t] = "d_remove"
    /\ rwv_store' = BTreeMap_remove(rwv_store, th_value[t])
    /\ rwv_dropped' = IF th_value[t] \in DOMAIN rwv_store
                      THEN rwv_dropped \cup {th_value[t]} ELSE rwv_dropped
    /\ store_writer' = None
    /\ Return(t, "drop", Ok(BTreeMap_get(rwv_store, th_value[t])))
    /\ UNCHANGED <<rwv_count, count_lock, count_poisoned, store_readers,
                   store_poisoned, started, rwv_log, rwvOthers>>

\* Thread t panics inside update or drop while it holds a lock exclusively:
\* unwinding drops its guards, which poisons the count mutex and the store
\* lock it held for writing; a read guard is released without poisoning.
Panic(t) ==
    /\ th_pc[t] # "idle"
    /\ count_lock = Some(t) \/ store_writer = Some(t)
    /\ count_lock' = IF count_lock = Some(t) THEN None ELSE count_lock
    /\ count_poisoned' = (count_poisoned \/ count_lock = Some(t))
    /\ store_writer' = IF store_writer = Some(t) THEN None ELSE store_writer
    /\ store_poisoned' = (store_poisoned \/ store_writer = Some(t))
    /\ store_readers' = store_readers \ {t}
    /\ th_pc' = [th_pc EXCEPT ![t] = "panicked"]
    /\ UNCHANGED <<rwv_store, rwv_count, th_version, th_value, rwv_ret,
                   started, rwv_log, rwv_dropped, rwvOthers>>

\* ----------------------------------------------------- list/fixed/sync.rs
\* RwFixed: guard: RwLock<Inner<T, N>>
\* the capacities of the buffer that threads share
MaxRwN == 2

ErrPoisoned == <<"Err", "Poisoned">>
ErrIndex == <<"Err", "Index">>

RwFixed_new ==
    [list |-> [i \in Slots |-> None], next |-> 0, oldest |-> 0, stored |-> 0]

RwFixed_with_list(given) ==
    [list |-> [i \in Slots |-> Some(given[i])],
     next |-> 0, oldest |-> 0, stored |-> N]

RwFixed_with_index(given, index) ==
    IF index >= N THEN None
    ELSE LET oldest == IF index = N - 1 THEN 0 ELSE index + 1
         IN  Some([list |-> [i \in Slots |-> Some(given[i])],
                   next |-> oldest, oldest |-> oldest, stored |-> N])

Inner_newest_index(inner) == IF inner.next = 0 THEN N - 1 ELSE inner.next - 1

\* push as Fixed::push does it: oldest follows next on a full buffer
RwFixed_push_moves_oldest(inner, v) ==
    LET next == (inner.next + 1) % N
    IN  [self |-> [list   |-> [inner.list EXCEPT ![inner.next] = Some(v)],
                   next   |-> next,
                   oldest |-> IF inner.stored = N THEN next ELSE inner.oldest,
                   stored |-> IF inner.stored = N THEN inner.stored
                              ELSE inner.stored + 1],
         rtn  |-> Ok(inner.list[inner.next])]

\* push that writes to the slot oldest points at
RwFixed_push_at_oldest(inner, v) ==
    LET next == (inner.next + 1) % N
    IN  [self |-> [list   |-> [inner.list EXCEPT ![inner.oldest] = Some(v)],
                   next   |-> next,
                   oldest |-> inner.oldest,
                   stored |-> IF inner.stored = N THEN inner.stored
                              ELSE inner.stored + 1],
         rtn  |-> Ok(inner.list[inner.oldest])]

\* The body of RwFixed::push under the write guard.  On a full buffer the
\* statement is the comparison `inner.oldest == inner.next;`, whose value is
\* discarded: oldest keeps its value.
RwFixed_push(inner, v) ==
    LET next == (inner.next + 1) % N
    IN  [self |-> [list   |-> [inner.list EXCEPT ![inner.next] = Some(v)],
                   next   |-> next,
                   oldest |-> inner.oldest,
                   stored |-> IF inner.stored = N THEN inner.stored
                              ELSE inner.stored + 1],
         rtn  |-> Ok(inner.list[inner.next])]

\* The body of RwFixed::pop under the write guard
RwFixed_pop(inner) ==
    IF inner.stored = 0 THEN [self |-> inner, rtn |-> Ok(None)]
    ELSE [self |-> [list   |-> [inner.list EXCEPT ![inner.oldest] = None],
                    next   |-> inner.next,
                    oldest |-> (inner.oldest + 1) % N,
                    stored |-> inner.stored - 1],
          rtn  |-> Ok(inner.list[inner.oldest])]

\* A Value handle: the read guard and a pointer to list[slot]
Value(slot) == [kind |-> "Value", value |-> slot]

\* Ok(None) when the slot is empty (the guard is dropped), else the handle
ValueOf(inner, slot) ==
    IF inner.list[slot] = None THEN Ok(None) ELSE Ok(Some(Value(slot)))

\* The bodies of newest, oldest and stored under the read guard
RwFixed_newest(inner) == ValueOf(inner, Inner_newest_index(inner))

RwFixed_oldest(inner) == ValueOf(inner, inner.oldest)

RwFixed_stored(inner) == Ok(inner.stored)

\* The index RwFixed::get computes under the read guard, for given < N
RwFixed_get_index(inner, given) ==
    LET index == Inner_newest_index(inner)
    IN  IF index < given THEN N - (given - index) ELSE index - given

RwFixed_get(inner, given) == ValueOf(inner, RwFixed_get_index(inner, given))

\* RwFixed::get returns Err(Error::Index) before it touches the lock
RwFixed_get_checks_first(given) == given >= N

\* An Iter handle: the read guard and the two cursors
RwFixed_iter(inner) ==
    Ok(Some([kind |-> "Iter", backward |-> Inner_newest_index(inner),
             backward_count |-> 0, forward |-> inner.oldest,
             forward_count |-> 0]))

Inner == rwf_inner[1]

NoRwFixed ==
    /\ rwf_inner = None
    /\ rwf_poisoned = FALSE
    /\ rwf_writer = None
    /\ rwf_readers = {}
    /\ rwf_pc = [t \in Threads |-> "idle"]
    /\ rwf_arg = [t \in Threads |-> None]
    /\ rwf_ret = Returned("none", None)
    /\ rwf_handle = [t \in Threads |-> None]
    /\ rwf_ref = None
    /\ rwf_deref = None

\* what the caller sees through the result of a read: the value the handle
\* points to instead of the handle
Seen(inner, r) ==
    IF r = Ok(None) THEN r
    ELSE IF r[2][1].kind = "Value" THEN Ok(inner.list[r[2][1].value])
    ELSE r

rwfOthers == <<callVars, fixedVars, versionedVars, rwvVars, extVars>>
rwfRefs == <<rwf_ref, rwf_deref>>

\* write lock that is granted while read guards are alive
RwLock_write_free_ignores_readers == rwf_writer = None

\* RwLock::write returns once no guard of either kind is held
RwLock_write_free == rwf_writer = None /\ rwf_readers = {}

\* RwLock::read returns once no write guard is held
RwLock_read_free == rwf_writer = None

RwReturn(t, name, val) ==
    /\ rwf_pc' = [rwf_pc EXCEPT ![t] = "idle"]
    /\ rwf_arg' = [rwf_arg EXCEPT ![t] = None]
    /\ rwf_ret' = Returned(name, val)

\* push and pop that carry on with a poisoned lock
RwFixed_write_err_ignored(poisoned) == FALSE

\* self.guard.write().map_err(|_| Error::Poisoned)?
RwFixed_write_err(poisoned) == poisoned

\* RwFixed::push(v) and RwFixed::pop() up to the write guard
RwWriteLock(t, name, v) ==
    /\ rwf_inner # None
    /\ rwf_pc[t] = "idle"
    /\ RwLock_write_free
    /\ IF RwFixed_write_err(rwf_poisoned)
       THEN /\ RwReturn(t, name, ErrPoisoned)
            /\ UNCHANGED rwf_writer
       ELSE /\ rwf_writer' = Some(t)
            /\ rwf_pc' = [rwf_pc EXCEPT ![t] = name]
            /\ rwf_arg' = [rwf_arg EXCEPT ![t] = v]
            /\ UNCHANGED rwf_ret
    /\ UNCHANGED <<N, rwf_inner, rwf_poisoned, rwf_readers, rwf_handle,
                   rwfRefs, rwfOthers>>

RwPushLock(t, v) == RwWriteLock(t, "push", v)

RwPopLock(t) == RwWriteLock(t, "pop", None)

\* a write that changes the slots in changed is noted in the reference, if
\* there is one; a reference into one of these slots is left dangling
Invalidate(changed) ==
    IF rwf_ref = None \/ changed = {} THEN rwf_ref
    ELSE Some([rwf_ref[1] EXCEPT !.written = TRUE,
                                 !.dangling = @ \/ rwf_ref[1].slot \in changed])

\* the rest of push or pop: the body, then the write guard is dropped
RwWriteBody(t, name, r, changed) ==
    /\ rwf_pc[t] = name
    /\ rwf_inner' = Some(r.self)
    /\ rwf_writer' = None
    /\ RwReturn(t, name, r.rtn)
    /\ rwf_ref' = Invalidate(changed)
    /\ UNCHANGED <<N, rwf_poisoned, rwf_readers, rwf_handle, rwf_deref,
                   rwfOthers>>

\* push writes list[next]
RwPushBody(t) ==
    RwWriteBody(t, "push", RwFixed_push(Inner, rwf_arg[t]), {Inner.next})

\* pop takes list[oldest] unless nothing is stored
RwPopBody(t) ==
    RwWriteBody(t, "pop", RwFixed_pop(Inner),
                IF Inner.stored = 0 THEN {} ELSE {Inner.oldest})

\* newest, oldest, get and iter: self.guard.read()
\*     .map_err(|_| Error::Poisoned)?, then the body r; the read guard lives
\* on in the handle that is returned, and is dropped when there is none
RwRead(t, name, r) ==
    /\ rwf_inner # None
    /\ rwf_pc[t] = "idle"
    /\ rwf_handle[t] = None
    /\ RwLock_read_free
    /\ IF rwf_poisoned
       THEN /\ RwReturn(t, name, ErrPoisoned)
            /\ UNCHANGED <<rwf_readers, rwf_handle>>
       ELSE /\ RwReturn(t, name, Seen(Inner, r))
            /\ rwf_handle' = [rwf_handle EXCEPT ![t] = r[2]]
            /\ rwf_readers' = IF r[2] = None THEN rwf_readers
                              ELSE rwf_readers \cup {t}
    /\ UNCHANGED <<N, rwf_inner, rwf_poisoned, rwf_writer, rwfRefs,
                   rwfOthers>>

RwNewest(t) == RwRead(t, "newest", RwFixed_newest(Inner))

RwOldest(t) == RwRead(t, "oldest", RwFixed_oldest(Inner))

RwIter(t) == RwRead(t, "iter", RwFixed_iter(Inner))

\* RwFixed::get(given): the distance is checked before the lock is taken
RwGet(t, given) ==
    IF RwFixed_get_checks_first(given)
    THEN /\ rwf_inner # None
         /\ rwf_pc[t] = "idle"
         /\ rwf_handle[t] = None
         /\ RwReturn(t, "get", ErrIndex)
         /\ UNCHANGED <<N, rwf_inner, rwf_poisoned, rwf_writer, rwf_readers,
                        rwf_handle, rwfRefs, rwfOthers>>
    ELSE /\ given < N
         /\ RwRead(t, "get", RwFixed_get(Inner, given))

\* RwFixed::stored(): the read guard is dropped on return
RwStored(t) ==
    /\ rwf_inner # None
    /\ rwf_pc[t] = "idle"
    /\ RwLock_read_free
    /\ RwReturn(t, "stored", IF rwf_poisoned THEN ErrPoisoned
                             ELSE RwFixed_stored(Inner))
    /\ UNCHANGED <<N, rwf_inner, rwf_poisoned, rwf_writer, rwf_readers,
                   rwf_handle, rwfRefs, rwfOthers>>

\* Value::value() / Deref::deref(): a &'a T copied out of the handle; 'a is
\* the lifetime of the borrow of the RwFixed, not of the handle.  One
\* reference is followed at a time.
RwValueRef(t) ==
    /\ rwf_pc[t] = "idle"
    /\ rwf_handle[t] # None
    /\ rwf_handle[t][1].kind = "Value"
    /\ rwf_ref = None
    /\ rwf_ref' = Some([owner |-> t, slot |-> rwf_handle[t][1].value,
                        released |-> FALSE, written |-> FALSE,
                        dangling |-> FALSE])
    /\ rwf_deref' = None
    /\ UNCHANGED <<N, rwf_inner, rwf_poisoned, rwf_writer, rwf_readers,
                   rwf_pc, rwf_arg, rwf_ret, rwf_handle, rwfOthers>>

\* the handle (Value or Iter) is dropped, and its read guard with it
RwHandleDrop(t) ==
    /\ rwf_pc[t] = "idle"
    /\ rwf_handle[t] # None
    /\ rwf_handle' = [rwf_handle EXCEPT ![t] = None]
    /\ rwf_readers' = rwf_readers \ {t}
    /\ rwf_ref' = IF rwf_ref # None /\ rwf_ref[1].owner = t
                  THEN Some([rwf_ref[1] EXCEPT !.released = TRUE])
                  ELSE rwf_ref
    /\ UNCHANGED <<N, rwf_inner, rwf_poisoned, rwf_writer, rwf_pc, rwf_arg,
                   rwf_ret, rwf_deref, rwfOthers>>

\* The thread reads through the reference for the last time.  Reading a
\* dangling reference is undefined behaviour: any value may come out.
RwRefRead(t) ==
    /\ rwf_pc[t] = "idle"
    /\ rwf_ref # None
    /\ rwf_ref[1].owner = t
    /\ \E v \in Values :
          /\ rwf_ref[1].dangling \/ Inner.list[rwf_ref[1].slot] = Some(v)
          /\ rwf_deref' = Some([val |-> v,
                                released |-> rwf_ref[1].released,
                                written |-> rwf_ref[1].written,
                                dangling |-> rwf_ref[1].dangling])
    /\ rwf_ref' = None
    /\ UNCHANGED <<N, rwf_inner, rwf_poisoned, rwf_writer, rwf_readers,
                   rwf_pc, rwf_arg, rwf_ret, rwf_handle, rwfOthers>>

\* Thread t panics inside push or pop while it holds the write guard:
\* unwinding drops the guard, which poisons the lock.
RwPanic(t) ==
    /\ rwf_pc[t] \in {"push", "pop"}
    /\ rwf_writer = Some(t)
    /\ rwf_writer' = None
    /\ rwf_poisoned' = TRUE
    /\ rwf_pc' = [rwf_pc EXCEPT ![t] = "panicked"]
    /\ UNCHANGED <<N, rwf_inner, rwf_readers, rwf_arg, rwf_ret, rwf_handle,
                   rwfRefs, rwfOthers>>

\* ---------------------------------------- Fixed and RwFixed side by side
\* a read-only call on Fixed
FixedQuery(name, given, val) ==
    /\ fixed # None
    /\ iter = None
    /\ op' = name
    /\ arg' = given
    /\ result' = val
    /\ prev' = fixed
    /\ q_result' = None
    /\ UNCHANGED <<N, fixed, queue, logVars, iterVars, versionedVars, rwvVars, extVars>>

\* a whole call on RwFixed by thread 1 with no other thread about: the lock
\* is free when the call begins and free again when it has returned
SeqRw(name, inner, val) ==
    /\ rwf_writer = None
    /\ rwf_readers = {}
    /\ rwf_inner' = inner
    /\ rwf_ret' = Returned(name, val)
    /\ UNCHANGED <<rwf_poisoned, rwf_writer, rwf_readers, rwf_pc, rwf_arg,
                   rwf_handle, rwfRefs>>

SeqBuilt(ctor, inner) ==
    /\ seed' = [ctor |-> ctor, given |-> <<>>, index |-> 0]
    /\ SeqRw(ctor, inner, None)
    /\ UNCHANGED <<pushed, rets>>

SeqWrite(name, r) ==
    /\ rwf_inner # None
    /\ IF RwFixed_write_err(rwf_poisoned)
       THEN SeqRw(name, rwf_inner, ErrPoisoned)
       ELSE SeqRw(name, Some(r.self), r.rtn)
    /\ UNCHANGED logVars

\* the handle a read returns is looked through and dropped at once
SeqRead(name, r) ==
    /\ rwf_inner # None
    /\ SeqRw(name, rwf_inner,
             IF rwf_poisoned THEN ErrPoisoned ELSE Seen(Inner, r))

SeqNew == DoNew /\ SeqBuilt("new", Some(RwFixed_new))

SeqWithList(given) ==
    DoWithList(given) /\ SeqBuilt("with_list", Some(RwFixed_with_list(given)))

SeqWithIndex(given, index) ==
    /\ DoWithIndex(given, index)
    /\ SeqBuilt("with_index", RwFixed_with_index(given, index))

SeqPush(v) == DoPush(v) /\ SeqWrite("push", RwFixed_push(Inner, v))

SeqPop == DoPop /\ SeqWrite("pop", RwFixed_pop(Inner))

SeqNewest ==
    /\ FixedQuery("newest", None, Fixed_newest(F))
    /\ SeqRead("newest", RwFixed_newest(Inner))

SeqOldest ==
    /\ FixedQuery("oldest", None, Fixed_oldest(F))
    /\ SeqRead("oldest", RwFixed_oldest(Inner))

SeqStored ==
    /\ FixedQuery("stored", None, Fixed_stored(F))
    /\ rwf_inner # None
    /\ SeqRw("stored", rwf_inner,
             IF rwf_poisoned THEN ErrPoisoned ELSE RwFixed_stored(Inner))

SeqGet(given) ==
    /\ FixedQuery("get", given, Fixed_get(F, given))
    /\ IF RwFixed_get_checks_first(given)
       THEN rwf_inner # None /\ SeqRw("get", rwf_inner, ErrIndex)
       ELSE SeqRead("get", RwFixed_get(Inner, given))

\* ------------------------------------------- serde (feature "serde")
\* Values of the serde data model, as the Serialize impls hand them to a
\* data format and as a data format hands them to the visitors.
SerNone == <<"none">>
SerNum(n) == <<"u64", n>>
SerSeq(s) == <<"seq", s>>
SerMap(m) == <<"map", m>>
DeErr(kind) == <<"Err", kind>>
IsOk(r) == r[1] = "Ok"

NoSerde == ser_orig = None /\ ser_payload = None /\ ser_back = None

Option_serialize(o) == IF o = None THEN SerNone ELSE SerNum(o[1])

Option_deserialize(v) ==
    IF v[1] = "none" THEN Ok(None)
    ELSE IF v[1] = "u64" THEN Ok(Some(v[2]))
    ELSE DeErr("invalid_type")

u64_deserialize(v) ==
    IF v[1] = "u64" THEN Ok(v[2]) ELSE DeErr("invalid_type")

\* self.list.as_slice() as a sequence of N options
Slice_serialize(list) ==
    SerSeq([i \in 1..N |-> Option_serialize(list[i - 1])])

\* Vec<Option<T>> from a sequence of any length
Vec_deserialize(v) ==
    IF v[1] # "seq" THEN DeErr("invalid_type")
    ELSE IF \E i \in 1..Len(v[2]) : ~IsOk(Option_deserialize(v[2][i]))
    THEN DeErr("invalid_type")
    ELSE Ok([i \in 1..Len(v[2]) |-> Option_deserialize(v[2][i])[2]])

\* conversion to the array that pads or truncates instead of failing
Array_try_from_lenient(t) ==
    Ok([i \in Slots |-> IF i + 1 <= Len(t) THEN t[i + 1] ELSE None])

\* Vec<Option<T>> -> [Option<T>; N]: fails unless the length is N
Array_try_from(t) ==
    IF Len(t) = N THEN Ok([i \in Slots |-> t[i + 1]])
    ELSE DeErr("invalid_length")

RECURSIVE Ascending(_)
Ascending(keys) ==
    IF keys = {} THEN <<>>
    ELSE LET k == CHOOSE x \in keys : \A y \in keys : x <= y
         IN  <<k>> \o Ascending(keys \ {k})

\* a BTreeMap as its entries in key order
BTreeMap_serialize(m) ==
    SerMap([i \in 1..Cardinality(DOMAIN m) |->
               <<Ascending(DOMAIN m)[i], SerNum(m[Ascending(DOMAIN m)[i]])>>])

RECURSIVE BTreeMap_collect(_, _)
BTreeMap_collect(entries, m) ==
    IF entries = <<>> THEN Ok(m)
    ELSE LET value == u64_deserialize(entries[1][2])
         IN  IF IsOk(value)
             THEN BTreeMap_collect(Tail(entries),
                                   BTreeMap_insert(m, entries[1][1], value[2]))
             ELSE value

\* deserialization that keeps the values and numbers them from zero
BTreeMap_deserialize_renumbered(v) ==
    IF v[1] # "map" THEN DeErr("invalid_type")
    ELSE BTreeMap_collect([i \in 1..Len(v[2]) |-> <<i - 1, v[2][i][2]>>],
                          BTreeMap_new)

BTreeMap_deserialize(v) ==
    IF v[1] # "map" THEN DeErr("invalid_type")
    ELSE BTreeMap_collect(v[2], BTreeMap_new)

\* what a data format makes of serialize_struct and its serialize_field
\* calls: a self-describing format keeps the names, a compact one the order
Formats == {"named", "positional"}

SerializeStruct(format, fields) ==
    IF format = "named" THEN [shape |-> "map", body |-> fields]
    ELSE [shape |-> "seq", body |-> [i \in 1..Len(fields) |-> fields[i][2]]]

Fixed_STRUCT_FIELDS == <<"list", "next", "oldest", "stored">>

Fixed_serialize(f) ==
    << <<"list", Slice_serialize(f.list)>>,
       <<"next", SerNum(f.next)>>,
       <<"oldest", SerNum(f.oldest)>>,
       <<"stored", SerNum(f.stored)>> >>

KeyField_visit_str(value) ==
    IF value \in Range(Fixed_STRUCT_FIELDS) THEN Ok(value)
    ELSE DeErr("unknown_field")

\* seq.next_element()?.ok_or_else(invalid_length) for the element at i
NextElement(elems, i) ==
    IF Len(elems) < i THEN DeErr("invalid_length") ELSE Ok(elems[i])

FixedVisitor_visit_seq(elems) ==
    LET t      == IF IsOk(NextElement(elems, 1))
                  THEN Vec_deserialize(elems[1]) ELSE NextElement(elems, 1)
        list   == IF IsOk(t) THEN Array_try_from(t[2]) ELSE t
        num(i) == IF IsOk(NextElement(elems, i))
                  THEN u64_deserialize(elems[i]) ELSE NextElement(elems, i)
    IN  IF ~IsOk(list) THEN list
        ELSE IF ~IsOk(num(2)) THEN num(2)
        ELSE IF ~IsOk(num(3)) THEN num(3)
        ELSE IF ~IsOk(num(4)) THEN num(4)
        ELSE Ok([list |-> list[2], next |-> num(2)[2],
                 oldest |-> num(3)[2], stored |-> num(4)[2]])

\* the while loop of visit_map over the remaining entries
RECURSIVE FixedVisitor_next_key(_, _)
FixedVisitor_next_key(entries, acc) ==
    IF entries = <<>> THEN Ok(acc)
    ELSE LET key  == entries[1][1]
             val  == entries[1][2]
             t    == Vec_deserialize(val)
             list == IF IsOk(t) THEN Array_try_from(t[2]) ELSE t
             num  == u64_deserialize(val)
         IN  IF ~IsOk(KeyField_visit_str(key)) THEN KeyField_visit_str(key)
             ELSE IF Len(acc[key]) = 1 THEN DeErr("duplicate_field")
             ELSE IF key = "list"
             THEN IF IsOk(list)
                  THEN FixedVisitor_next_key(Tail(entries),
                           [acc EXCEPT !.list = Some(list[2])])
                  ELSE list
             ELSE IF IsOk(num)
                  THEN FixedVisitor_next_key(Tail(entries),
                           [acc EXCEPT ![key] = Some(num[2])])
                  ELSE num

FixedVisitor_visit_map(entries) ==
    LET r == FixedVisitor_next_key(entries,
                 [list |-> None, next |-> None, oldest |-> None,
                  stored |-> None])
    IN  IF ~IsOk(r) THEN r
        ELSE IF \E k \in Range(Fixed_STRUCT_FIELDS) : r[2][k] = None
        THEN DeErr("missing_field")
        ELSE Ok([list |-> r[2].list[1], next |-> r[2].next[1],
                 oldest |-> r[2].oldest[1], stored |-> r[2].stored[1]])

Fixed_deserialize(payload) ==
    IF payload.shape = "seq" THEN FixedVisitor_visit_seq(payload.body)
    ELSE FixedVisitor_visit_map(payload.body)

Versioned_STRUCT_FIELDS == <<"store", "count">>

Versioned_serialize(s) ==
    << <<"store", BTreeMap_serialize(s.store)>>,
       <<"count", SerNum(s.count)>> >>

StructField_visit_str(value) ==
    IF value \in Range(Versioned_STRUCT_FIELDS) THEN Ok(value)
    ELSE DeErr("unknown_field")

VersionedVisitor_visit_seq(elems) ==
    LET store == IF IsOk(NextElement(elems, 1))
                 THEN BTreeMap_deserialize(elems[1])
                 ELSE NextElement(elems, 1)
        count == IF IsOk(NextElement(elems, 2))
                 THEN u64_deserialize(elems[2]) ELSE NextElement(elems, 2)
    IN  IF ~IsOk(store) THEN store
        ELSE IF ~IsOk(count) THEN count
        ELSE Ok([store |-> store[2], count |-> count[2]])

RECURSIVE VersionedVisitor_next_key(_, _)
VersionedVisitor_next_key(entries, acc) ==
    IF entries = <<>> THEN Ok(acc)
    ELSE LET key   == entries[1][1]
             val   == entries[1][2]
             store == BTreeMap_deserialize(val)
             count == u64_deserialize(val)
         IN  IF ~IsOk(StructField_visit_str(key))
             THEN StructField_visit_str(key)
             ELSE IF Len(acc[key]) = 1 THEN DeErr("duplicate_field")
             ELSE IF key = "store"
             THEN IF IsOk(store)
                  THEN VersionedVisitor_next_key(Tail(entries),
                           [acc EXCEPT !.store = Some(store[2])])
                  ELSE store
             ELSE IF IsOk(count)
                  THEN VersionedVisitor_next_key(Tail(entries),
                           [acc EXCEPT !.count = Some(count[2])])
                  ELSE count

VersionedVisitor_visit_map(entries) ==
    LET r == VersionedVisitor_next_key(entries,
                                       [store |-> None, count |-> None])
    IN  IF ~IsOk(r) THEN r
        ELSE IF \E k \in Range(Versioned_STRUCT_FIELDS) : r[2][k] = None
        THEN DeErr("missing_field")
        ELSE Ok([store |-> r[2].store[1], count |-> r[2].count[1]])

Versioned_deserialize(payload) ==
    IF payload.shape = "seq" THEN VersionedVisitor_visit_seq(payload.body)
    ELSE VersionedVisitor_visit_map(payload.body)

\* RwVersioned hands its RwLock and its Mutex to serialize_field: serde
\* takes the lock and fails on a poisoned one
Lock_serialize(poisoned, value) ==
    IF poisoned THEN DeErr("custom") ELSE Ok(value)

RwVersioned_serialize(rw) ==
    LET store == Lock_serialize(rw.store_poisoned,
                                BTreeMap_serialize(rw.store))
        count == Lock_serialize(rw.count_poisoned, SerNum(rw.count))
    IN  IF ~IsOk(store) THEN store
        ELSE IF ~IsOk(count) THEN count
        ELSE Ok(<< <<"store", store[2]>>, <<"count", count[2]>> >>)

\* the visitors of RwVersioned read the same two fields; each value is
\* put behind a new lock
RwVersioned_deserialize(payload) ==
    LET r == Versioned_deserialize(payload)
    IN  IF ~IsOk(r) THEN r
        ELSE Ok([store |-> r[2].store, count |-> r[2].count,
                 store_poisoned |-> FALSE, count_poisoned |-> FALSE])

Serialized(type, out) == [type |-> type, out |-> out]

SerdeOthers == <<N, callVars, fixedVars, versionedVars, rwfVars, rwvVars,
                 variedVars>>

\* serialize(&structure) into a payload of the given format
Serialize(type, value, out) ==
    /\ NoSerde
    /\ ser_orig' = Some([type |-> type, value |-> value])
    /\ ser_payload' = Some(Serialized(type, out))
    /\ UNCHANGED <<ser_back, SerdeOthers>>

SerializeFixed(f, format) ==
    Serialize("Fixed", f, Ok(SerializeStruct(format, Fixed_serialize(f))))

SerializeVersioned(s, format) ==
    Serialize("Versioned", s,
              Ok(SerializeStruct(format, Versioned_serialize(s))))

SerializeRwVersioned(rw, format) ==
    Serialize("RwVersioned", rw,
              IF IsOk(RwVersioned_serialize(rw))
              THEN Ok(SerializeStruct(format, RwVersioned_serialize(rw)[2]))
              ELSE RwVersioned_serialize(rw))

\* a payload that arrives from outside, to be read as a Fixed<T, N>
ReceiveFixed(payload) ==
    /\ NoSerde
    /\ ser_payload' = Some(Serialized("Fixed", Ok(payload)))
    /\ UNCHANGED <<ser_orig, ser_back, SerdeOthers>>

Deserialize ==
    /\ ser_payload # None
    /\ IsOk(ser_payload[1].out)
    /\ ser_back = None
    /\ ser_back' = Some(CASE ser_payload[1].type = "Fixed" ->
                                 Fixed_deserialize(ser_payload[1].out[2])
                          [] ser_payload[1].type = "Versioned" ->
                                 Versioned_deserialize(ser_payload[1].out[2])
                          [] ser_payload[1].type = "RwVersioned" ->
                                 RwVersioned_deserialize(ser_payload[1].out[2]))
    /\ UNCHANGED <<ser_orig, ser_payload, SerdeOthers>>

\* the structure, the payload and the restored structure go out of scope
SerdeDrop ==
    /\ ser_payload # None
    /\ ser_orig' = None
    /\ ser_payload' = None
    /\ ser_back' = None
    /\ UNCHANGED SerdeOthers

\* ----------------------------------------------------------------- Varied
\* history/src/list/varied.rs.  A Vec<T> is its elements (a sequence,
\* slot i of the Vec at position i + 1) and its capacity `cap`.  The
\* values handed to a buffer are numbered in the order they are handed
\* over, so that the smaller of two stored values is the older one.
NoVaried ==
    /\ varied = None
    /\ vr_call = None
    /\ vr_count = 0

NoExt == NoSerde /\ NoVaried

Varied_new == [list |-> <<>>, cap |-> 0, index |-> 0]

Varied_with_list(list, cap) == [list |-> list, cap |-> cap, index |-> 0]

Varied_with_index(given, cap, index) ==
    IF index > cap THEN None
    ELSE IF Len(given) = cap
    THEN Some([list |-> given, cap |-> cap, index |-> index])
    ELSE Some([list |-> given, cap |-> cap, index |-> 0])

Varied_with_capacity(capacity) ==
    [list |-> <<>>, cap |-> capacity, index |-> 0]

\* what a call did: the buffer after it, the value returned, and whether
\* it panicked (then nothing was returned and nothing was changed)
Outcome(self, rtn) == [self |-> self, rtn |-> rtn, panicked |-> FALSE]
Panicked(self) == [self |-> self, rtn |-> None, panicked |-> TRUE]

\* push that always overwrites the slot after the newest value
Varied_push_front(w, v) ==
    IF Len(w.list) = w.cap
    THEN IF w.index >= Len(w.list) THEN Panicked(w)
         ELSE Outcome([w EXCEPT !.list[1] = v], Some(w.list[1]))
    ELSE Outcome([w EXCEPT !.list = Append(@, v)], None)

Varied_push(w, v) ==
    IF Len(w.list) = w.cap
    THEN IF w.index >= Len(w.list) THEN Panicked(w)
         ELSE Outcome([w EXCEPT !.list[w.index + 1] = v,
                                !.index = (w.index + 1) % Len(w.list)],
                      Some(w.list[w.index + 1]))
    ELSE Outcome([w EXCEPT !.list = Append(@, v)], None)

Varied_newest(w) ==
    IF Len(w.list) = 0 THEN Outcome(w, None)
    ELSE IF Len(w.list) = w.cap
    THEN IF w.index = 0 THEN Outcome(w, Some(w.list[Len(w.list)]))
         ELSE IF w.index - 1 >= Len(w.list) THEN Panicked(w)
         ELSE Outcome(w, Some(w.list[w.index]))
    ELSE Outcome(w, Some(w.list[Len(w.list)]))

Varied_oldest(w) ==
    IF Len(w.list) = 0 THEN Outcome(w, None)
    ELSE IF Len(w.list) = w.cap
    THEN IF w.index >= Len(w.list) THEN Panicked(w)
         ELSE Outcome(w, Some(w.list[w.index + 1]))
    ELSE Outcome(w, Some(w.list[1]))

Varied_iter(w) == [working |-> w, count |-> Len(w.list)]

VariedIter_next(it) ==
    IF it.count > 0
    THEN LET index == (it.working.index + (it.count - 1))
                          % Len(it.working.list)
         IN  [self |-> [it EXCEPT !.count = @ - 1],
              rtn  |-> Some(it.working.list[index + 1])]
    ELSE [self |-> it, rtn |-> None]

\* the values next() yields until it returns None
RECURSIVE VariedIter_collect(_)
VariedIter_collect(it) ==
    IF VariedIter_next(it).rtn = None THEN <<>>
    ELSE VariedIter_next(it).rtn \o VariedIter_collect(VariedIter_next(it).self)

\* slice::rotate_left(mid) and slice::rotate_right(k), for mid, k <= len
Vec_rotate_left(list, mid) ==
    SubSeq(list, mid + 1, Len(list)) \o SubSeq(list, 1, mid)

Vec_rotate_right(list, k) == Vec_rotate_left(list, Len(list) - k)

\* Vec::reserve_exact(additional): room for `additional` more elements
\* than the Vec holds; nothing when the capacity is already sufficient
Vec_reserve_exact(list, cap, additional) ==
    IF cap - Len(list) >= additional THEN cap ELSE Len(list) + additional

Varied_grow(w, amount) ==
    LET len == Len(w.list)
    IN  [list  |-> IF len = w.cap
                   THEN IF w.index < len \div 2
                        THEN Vec_rotate_left(w.list, w.index)
                        ELSE Vec_rotate_right(w.list, len - w.index)
                   ELSE w.list,
         cap   |-> Vec_reserve_exact(w.list, w.cap, amount),
         index |-> w.index]

diff(a, b) == IF a > b THEN <<a - b, TRUE>> ELSE <<b - a, FALSE>>

\* the rotated slice, or None where `given.len() - diff` underflows or the
\* rotation is asked for more than the length (both panic)
rotate_to_position(given, index, position) ==
    LET d       == diff(index, position)[1]
        to_left == diff(index, position)[2]
    IN  IF d < Len(given) \div 2
        THEN IF to_left THEN Some(Vec_rotate_left(given, d))
             ELSE Some(Vec_rotate_right(given, d))
        ELSE IF d > Len(given) THEN None
        ELSE IF to_left THEN Some(Vec_rotate_right(given, Len(given) - d))
        ELSE Some(Vec_rotate_left(given, Len(given) - d))

\* shrink for amount <= capacity (a larger amount underflows new_capacity)
Varied_shrink(w, amount) ==
    LET new_capacity == w.cap - amount
        len          == Len(w.list)
        dropping     == len - new_capacity
        rotated      == rotate_to_position(w.list, w.index, new_capacity)
    IN  IF new_capacity < len
        THEN IF rotated = None THEN Panicked(w)
             ELSE Outcome([w EXCEPT !.list = SubSeq(rotated[1], 1,
                                                    new_capacity)],
                          [i \in 1..dropping |-> rotated[1][len + 1 - i]])
        ELSE Outcome(w, <<>>)

\* a full Vec of the first len values with the oldest in slot index
Seeded(len, index) ==
    [i \in 1..len |-> ((i - 1 + len - (index % len)) % len) + 1]

W == varied[1]

Called(name, a, o, before) ==
    [op |-> name, arg |-> a, val |-> o.rtn, panicked |-> o.panicked,
     before |-> before]

VariedOthers == <<N, callVars, fixedVars, versionedVars, rwfVars, rwvVars,
                  serdeVars>>

VrBuilt(name, a, built, count) ==
    /\ varied = None
    /\ varied' = built
    /\ vr_call' = Some(Called(name, a, Outcome(None, built # None), None))
    /\ vr_count' = IF built = None THEN 0 ELSE count
    /\ UNCHANGED VariedOthers

VrNew == VrBuilt("new", 0, Some(Varied_new), 0)

VrWithCapacity(capacity) ==
    VrBuilt("with_capacity", capacity,
            Some(Varied_with_capacity(capacity)), 0)

VrWithList(len, cap) ==
    VrBuilt("with_list", <<len, cap>>,
            Some(Varied_with_list([i \in 1..len |-> i], cap)), len)

\* the given Vec holds the first len values: oldest first when it has
\* room left, oldest in slot index when it is full
VrWithIndex(len, cap, index) ==
    VrBuilt("with_index", <<len, cap, index>>,
            Varied_with_index(IF len = cap /\ len > 0 THEN Seeded(len, index)
                              ELSE [i \in 1..len |-> i],
                              cap, index),
            len)

VrCall(name, a, o) ==
    /\ varied # None
    /\ varied' = Some(o.self)
    /\ vr_call' = Some(Called(name, a, o, W))
    /\ UNCHANGED VariedOthers

VrPush ==
    /\ VrCall("push", vr_count + 1, Varied_push(W, vr_count + 1))
    /\ vr_count' = vr_count + 1

VrNewest == VrCall("newest", 0, Varied_newest(W)) /\ UNCHANGED vr_count

VrOldest == VrCall("oldest", 0, Varied_oldest(W)) /\ UNCHANGED vr_count

VrIter ==
    /\ VrCall("iter", 0, Outcome(W, VariedIter_collect(Varied_iter(W))))
    /\ UNCHANGED vr_count

VrGrow(amount) ==
    /\ VrCall("grow", amount, Outcome(Varied_grow(W, amount), None))
    /\ UNCHANGED vr_count

VrShrink(amount) ==
    /\ VrCall("shrink", amount, Varied_shrink(W, amount))
    /\ UNCHANGED vr_count

\* --------------------------------------------------------- specifications
FixedInit ==
    N \in 1..MaxN /\ NoCall /\ NoFixed /\ NoVersioned /\ NoRwVersioned
    /\ NoRwFixed /\ NoExt

FixedNext ==
    \/ New
    \/ \E given \in Arrays : WithList(given)
    \/ \E given \in Arrays, index \in 0..(MaxN + 1) : WithIndex(given, index)
    \/ \E v \in Values : Push(v)
    \/ Pop
    \/ \E given \in 0..(MaxN + 1) : Get(given)

\* any constructor, push, pop and get calls on one Fixed buffer
FixedSpec == FixedInit /\ [][FixedNext]_vars

FixedIterNext ==
    \/ New
    \/ \E given \in Arrays : WithList(given)
    \/ \E given \in Arrays, index \in 0..(MaxN + 1) : WithIndex(given, index)
    \/ \E v \in Values : Push(v)
    \/ Pop
    \/ Iter
    \/ IterNext
    \/ IterNextBack
    \/ IterDrop

\* any constructor, push and pop calls on one Fixed buffer, with iterators
\* created, advanced from either end and dropped in between
FixedIterSpec == FixedInit /\ [][FixedIterNext]_vars

\* push with its argument and result logged; at most MaxPush pushes
PushLogged(v) ==
    /\ Len(pushed) < MaxPush
    /\ DoPush(v)
    /\ pushed' = Append(pushed, v)
    /\ rets' = Append(rets, result')
    /\ UNCHANGED <<seed, rwfVars>>

FixedPushNext ==
    \/ New
    \/ \E v \in Values : PushLogged(v)

\* Fixed::new() followed by pushes only
FixedPushSpec == FixedInit /\ [][FixedPushNext]_vars

\* pop with its result logged; at most one pop more than the capacity
PopLogged ==
    /\ Len(rets) <= N
    /\ DoPop
    /\ rets' = Append(rets, result')
    /\ UNCHANGED <<seed, pushed, rwfVars>>

\* with_list with its argument logged
WithListLogged(given) ==
    /\ DoWithList(given)
    /\ seed' = [ctor |-> "with_list", given |-> given, index |-> N - 1]
    /\ UNCHANGED <<pushed, rets, rwfVars>>

\* with_index with its arguments logged
WithIndexLogged(given, index) ==
    /\ DoWithIndex(given, index)
    /\ seed' = [ctor |-> "with_index", given |-> given, index |-> index]
    /\ UNCHANGED <<pushed, rets, rwfVars>>

FixedSeedNext ==
    \/ \E given \in Arrays : WithListLogged(given)
    \/ \E given \in Arrays, index \in 0..(MaxN + 1) :
          WithIndexLogged(given, index)
    \/ PopLogged

\* Fixed::with_list or Fixed::with_index followed by pops only
FixedSeedSpec == FixedInit /\ [][FixedSeedNext]_vars

VersionedInit ==
    N = 1 /\ NoCall /\ NoFixed /\ NoVersioned /\ NoRwVersioned
    /\ NoRwFixed /\ NoExt

VersionedNext ==
    \/ \E value \in Values : Update(value)
    \/ \E version \in 0..MaxCount : Remove(version)

\* any updates and removes on one Versioned store
VersionedSpec == VersionedInit /\ [][VersionedNext]_vars

RwVersionedInit ==
    /\ N = 1 /\ NoCall /\ NoFixed /\ NoVersioned /\ NoRwVersioned
    /\ NoRwFixed /\ NoExt

RwVersionedNext ==
    \/ \E t \in Threads : UpdateCall(t, started + 1)
    \/ \E t \in Threads : UpdateLockCount(t)
    \/ \E t \in Threads : UpdateRead(t)
    \/ \E t \in Threads : UpdateLockStore(t)
    \/ \E t \in Threads : UpdateInsert(t)
    \/ \E t \in Threads : UpdateUnlockStore(t)
    \/ \E t \in Threads : UpdateIncr(t)
    \/ \E t \in Threads : UpdateUnlockCount(t)
    \/ \E t \in Threads : Count(t)
    \/ \E t \in Threads : Store(t)
    \/ \E t \in Threads : StoreRelease(t)
    \/ \E t \in Threads, version \in 0..MaxUpdates : DropLock(t, version)
    \/ \E t \in Threads : DropRemove(t)

\* threads calling update, count, store and drop on one RwVersioned created
\* with new(), interleaved statement by statement; no thread panics
RwVersionedSpec == RwVersionedInit /\ [][RwVersionedNext]_vars

RwVersionedPoisonNext ==
    \/ RwVersionedNext
    \/ \E t \in Threads : Panic(t)

\* the same, where a thread may panic while it holds a lock
RwVersionedPoisonSpec == RwVersionedInit /\ [][RwVersionedPoisonNext]_vars

RwFixedSeqNext ==
    \/ SeqNew
    \/ \E given \in Arrays : SeqWithList(given)
    \/ \E given \in Arrays, index \in 0..(MaxN + 1) : SeqWithIndex(given, index)
    \/ \E v \in Values : SeqPush(v)
    \/ SeqPop
    \/ SeqNewest
    \/ SeqOldest
    \/ SeqStored
    \/ \E given \in 0..(MaxN + 1) : SeqGet(given)

\* one thread applying the same constructor and the same calls to a Fixed
\* and to an RwFixed
RwFixedSeqSpec == FixedInit /\ [][RwFixedSeqNext]_vars

RwFixedInit ==
    /\ N \in 1..MaxRwN /\ NoCall /\ NoFixed /\ NoVersioned /\ NoRwVersioned
    /\ NoExt
    /\ rwf_inner = Some(RwFixed_new)
    /\ rwf_poisoned = FALSE
    /\ rwf_writer = None
    /\ rwf_readers = {}
    /\ rwf_pc = [t \in Threads |-> "idle"]
    /\ rwf_arg = [t \in Threads |-> None]
    /\ rwf_ret = Returned("none", None)
    /\ rwf_handle = [t \in Threads |-> None]
    /\ rwf_ref = None
    /\ rwf_deref = None

RwFixedNext ==
    \/ \E t \in Threads, v \in Values : RwPushLock(t, v)
    \/ \E t \in Threads : RwPushBody(t)
    \/ \E t \in Threads : RwPopLock(t)
    \/ \E t \in Threads : RwPopBody(t)
    \/ \E t \in Threads : RwNewest(t)
    \/ \E t \in Threads : RwOldest(t)
    \/ \E t \in Threads : RwIter(t)
    \/ \E t \in Threads, given \in 0..(MaxRwN + 1) : RwGet(t, given)
    \/ \E t \in Threads : RwStored(t)
    \/ \E t \in Threads : RwHandleDrop(t)

\* threads calling push, pop and the read operations on one RwFixed created
\* with new(), holding and dropping the handles; no thread panics
RwFixedSpec == RwFixedInit /\ [][RwFixedNext]_vars

RwFixedRefNext ==
    \/ \E t \in Threads, v \in Values : RwPushLock(t, v)
    \/ \E t \in Threads : RwPushBody(t)
    \/ \E t \in Threads : RwPopLock(t)
    \/ \E t \in Threads : RwPopBody(t)
    \/ \E t \in Threads : RwNewest(t)
    \/ \E t \in Threads : RwOldest(t)
    \/ \E t \in Threads : RwValueRef(t)
    \/ \E t \in Threads : RwHandleDrop(t)
    \/ \E t \in Threads : RwRefRead(t)

\* threads calling push, pop, newest and oldest, taking a reference out of
\* a Value handle and reading through it
RwFixedRefSpec == RwFixedInit /\ [][RwFixedRefNext]_vars

RwFixedPoisonNext ==
    \/ RwFixedNext
    \/ \E t \in Threads : RwPanic(t)

\* the same, where a thread may panic while it holds the write guard
RwFixedPoisonSpec == RwFixedInit /\ [][RwFixedPoisonNext]_vars

\* ------------------------------------------------------------- properties
Opt(s) == IF s = <<>> THEN None ELSE Some(Head(s))
OptLast(s) == IF s = <<>> THEN None ELSE Some(Last(s))
Wrapped(f) == f.stored > 0 /\ f.next <= f.oldest /\ f.next # 0

\* C1: the buffer and a FIFO queue of at most N values run side by side
\* agree: push and pop return what the queue returns (push gives back the
\* queue's head only when the queue already holds N values, pop gives the
\* head or none), stored() is the queue length, oldest() its head and
\* newest() its last element, both none when the queue is empty.
C1_RefinesBoundedFifo ==
    fixed # None =>
        /\ op \in {"push", "pop"} => result = q_result
        /\ Fixed_stored(F) = Len(queue)
        /\ Len(queue) <= N
        /\ Fixed_oldest(F) = Opt(queue)
        /\ Fixed_newest(F) = OptLast(queue)

\* a buffer built by new(), filled past its capacity and then popped
C1_Witness ==
    /\ fixed # None
    /\ seed.ctor = "new"
    /\ op = "pop"
    /\ result # None
    /\ N >= 2
    /\ Wrapped(F)

\* C2: after each push stored = min(stored_prev + 1, N), and the push
\* returns a previous value exactly when stored_prev = N.
C2_PushStored ==
    op = "push" =>
        /\ F.stored = Min(prev[1].stored + 1, N)
        /\ result # None <=> prev[1].stored = N

\* a push onto a full buffer that was built by new() and popped before
C2_Witness ==
    /\ op = "push"
    /\ seed.ctor = "new"
    /\ result # None
    /\ prev[1].stored = N
    /\ prev[1].next # 0
    /\ N >= 2

\* C3: with pushes only from new(), the i-th push returns none for i <= N
\* and the (i-N)-th value pushed for i > N.
C3_FifoEviction ==
    /\ Len(rets) = Len(pushed)
    /\ \A i \in 1..Len(rets) :
          rets[i] = IF i <= N THEN None ELSE Some(pushed[i - N])

\* N + 2 pushes, the two evicted values being different
C3_Witness ==
    /\ N >= 2
    /\ Len(rets) = N + 2
    /\ rets[N + 1] # None
    /\ rets[N + 1] # rets[N + 2]

\* C4: get(0) equals newest(), and get(stored-1) equals oldest() when
\* stored > 0.
C4_GetEnds ==
    fixed # None =>
        /\ Fixed_get(F, 0) = Ok(Fixed_newest(F))
        /\ F.stored > 0 => Fixed_get(F, F.stored - 1) = Ok(Fixed_oldest(F))

\* a partly filled buffer whose live slots wrap around the end of the array
C4_Witness ==
    /\ fixed # None
    /\ F.stored >= 2
    /\ F.stored < N
    /\ F.oldest > Fixed_newest_index(F)

\* C5: get(d) is the index error exactly when d >= N; for d < N it is the
\* value d steps back from the newest (the slot newest_index - d modulo N)
\* when d < stored and none when stored <= d < N; the buffer is unchanged.
C5_GetContract ==
    op = "get" =>
        /\ result = Err <=> arg >= N
        /\ arg < N =>
              /\ result = Ok(IF arg < F.stored
                             THEN Some(queue[Len(queue) - arg]) ELSE None)
              /\ result = Ok(F.list[(Fixed_newest_index(F) + N - arg) % N])
        /\ fixed = prev

\* a get that wraps from slot 0 to the end of the array and finds a value
C5_Witness ==
    /\ op = "get"
    /\ arg < F.stored
    /\ arg > Fixed_newest_index(F)
    /\ result # Ok(None)
    /\ result # Err

\* C6: with_index(values, index) is none exactly when index >= N; otherwise
\* the buffer is full, its newest is values[index], its oldest is
\* values[(index+1) mod N], and the pops return values[index+1], ...,
\* values[N-1], values[0], ..., values[index], then none.  with_list(values)
\* is the buffer with_index(values, N-1): newest last, oldest first.
C6_Seeded ==
    /\ op = "with_index" => (result = None <=> seed.index >= N)
    /\ op = "with_index" /\ result # None =>
          /\ Fixed_stored(F) = N
          /\ Fixed_newest(F) = Some(seed.given[seed.index])
          /\ Fixed_oldest(F) = Some(seed.given[(seed.index + 1) % N])
    /\ op = "with_list" =>
          /\ fixed = Fixed_with_index(seed.given, N - 1)
          /\ Fixed_stored(F) = N
          /\ Fixed_newest(F) = Some(seed.given[N - 1])
          /\ Fixed_oldest(F) = Some(seed.given[0])
    /\ fixed # None =>
          \A j \in 1..Len(rets) :
              rets[j] = IF j <= N THEN Some(seed.given[(seed.index + j) % N])
                        ELSE None

\* with_index with the newest in the middle of the array, popped until none
C6_Witness ==
    /\ fixed # None
    /\ seed.ctor = "with_index"
    /\ N >= 3
    /\ seed.index > 0
    /\ seed.index < N - 1
    /\ Len(rets) = N + 1
    /\ rets[1] # rets[N]

\* C7: next() alone yields the live values newest to oldest and then none,
\* next_back() alone yields them oldest to newest and then none; each
\* traversal yields every live value exactly once.
C7_IterOrder ==
    iter # None =>
        /\ IsPrefix(out_next, Reverse(queue))
        /\ end_next => out_next = Reverse(queue)
        /\ IsPrefix(out_back, queue)
        /\ end_back => out_back = queue

\* a forward traversal run to its end over live slots that wrap around
C7_Witness ==
    /\ iter # None
    /\ end_next
    /\ out_back = <<>>
    /\ Len(out_next) >= 2
    /\ Len(out_next) < N
    /\ F.oldest > Fixed_newest_index(F)

\* C8: on one iterator, next() and next_back() together never yield more
\* values than stored.
C8_NoDoubleYield ==
    iter # None => Len(out_next) + Len(out_back) <= F.stored

\* C9: the k-th update (from 0) returns k, whatever was removed in between,
\* and its value is retrievable under version k until that version is
\* removed.
C9_UpdateVersions ==
    /\ Len(assigned) = Len(calls)
    /\ \A i \in 1..Len(assigned) : assigned[i] = i - 1
    /\ op = "update" => result = Len(calls) - 1
    /\ \A i \in 1..Len(calls) :
          assigned[i] \notin removed =>
              Versioned_get(versioned, assigned[i]) = Some(calls[i])

\* an update made after the newest version was removed
C9_Witness ==
    /\ op = "update"
    /\ Len(assigned) >= 3
    /\ (result - 1) \in removed
    /\ Versioned_get(versioned, result) # None

\* C10: every key of the entries map is below the counter, the counter
\* never decreases, and no version is assigned twice, also after a remove.
C10_Monotonic ==
    /\ \A k \in DOMAIN versioned.store : k < versioned.count
    /\ v_prev.count <= versioned.count
    /\ \A i, j \in 1..Len(assigned) : i # j => assigned[i] # assigned[j]

\* the store after every version but the first was removed and one added
C10_Witness ==
    /\ op = "update"
    /\ Len(assigned) >= 3
    /\ DOMAIN versioned.store = {0, result}
    /\ removed # {}

\* C11: remove(v) returns the value stored under v (none if absent);
\* afterwards get(v) is absent, the counter is unchanged and every other
\* version's entry is unchanged; removing an absent version changes nothing.
C11_RemoveFrame ==
    op = "remove" =>
        /\ result = Versioned_get(v_prev, arg)
        /\ Versioned_get(versioned, arg) = None
        /\ versioned.count = v_prev.count
        /\ \A k \in 0..MaxCount :
              k # arg => Versioned_get(versioned, k) = Versioned_get(v_prev, k)
        /\ result = None => versioned = v_prev

\* a version removed from between two surviving versions
C11_Witness ==
    /\ op = "remove"
    /\ result # None
    /\ \E k \in DOMAIN versioned.store : k < arg
    /\ \E k \in DOMAIN versioned.store : k > arg

\* the updates whose version has not been removed, by call number
LiveCalls == {i \in 1..Len(assigned) : assigned[i] \notin removed}
LastLiveCall == CHOOSE i \in LiveCalls : \A j \in LiveCalls : j <= i

\* C12: latest() and latest_version() give the entry of the greatest
\* surviving version (none when nothing survives), also when the version
\* assigned last has been removed.
C12_LatestSurviving ==
    IF LiveCalls = {}
    THEN /\ Versioned_latest(versioned) = None
         /\ Versioned_latest_version(versioned) = None
    ELSE /\ Versioned_latest(versioned) = Some(calls[LastLiveCall])
         /\ Versioned_latest_version(versioned)
               = Some(<<assigned[LastLiveCall], calls[LastLiveCall]>>)

\* the version assigned last was removed and an older one survives
C12_Witness ==
    /\ versioned.count >= 2
    /\ (versioned.count - 1) \in removed
    /\ Versioned_latest_version(versioned) # None
    /\ Versioned_latest_version(versioned)[1][1] < versioned.count - 1


\* ------------------------------------------------ RwVersioned properties
RwvVersions == {rwv_log[i][1] : i \in 1..Len(rwv_log)}

\* C13: the versions that concurrent update calls on a store created with
\* new() have returned are pairwise distinct and form exactly
\* {0, ..., k-1} for the k calls that returned, under every interleaving; no
\* value is overwritten: every returned version still maps to the value its
\* call passed unless it was dropped, so with nothing dropped the map holds
\* k keys once every call has returned.
C13_DistinctVersions ==
    /\ \A i, j \in 1..Len(rwv_log) : rwv_log[i][1] = rwv_log[j][1] => i = j
    /\ RwvVersions = 0..(Len(rwv_log) - 1)
    /\ \A i \in 1..Len(rwv_log) :
          \/ rwv_log[i][1] \in rwv_dropped
          \/ BTreeMap_get(rwv_store, rwv_log[i][1]) = Some(rwv_log[i][2])
    /\ (rwv_dropped = {} /\ \A t \in Threads : th_pc[t] \notin Range(UpdateSteps))
          => Cardinality(DOMAIN rwv_store) = Len(rwv_log)

C13_Witness ==
    /\ Len(rwv_log) >= 1
    /\ rwv_dropped = {}
    /\ \E t, u \in Threads :
          /\ th_pc[t] = "u_unlock_count"
          /\ th_pc[u] = "u_lock_count"
    /\ Cardinality(DOMAIN rwv_store) = Len(rwv_log) + 1

\* C17 as stated: while a reader holds the store read lock, every key of the
\* map is less than the value count() would return at that moment.
C17_NotAhead ==
    store_readers # {} => \A k \in DOMAIN rwv_store : k < rwv_count

\* C17: while a reader holds the store read lock no key of the map is
\* greater than the counter, and a key equal to the counter is the one
\* inserted by an update that still holds the count mutex and has not yet
\* incremented; whenever the count mutex is free, so that count() can return,
\* every key is less than the counter.
C17_AtMostCounter ==
    /\ store_readers # {} =>
          \A k \in DOMAIN rwv_store :
              \/ k < rwv_count
              \/ /\ k = rwv_count
                 /\ \E t \in Threads :
                       /\ count_lock = Some(t)
                       /\ th_pc[t] = "u_incr"
                       /\ th_version[t] = k
    /\ count_lock = None => \A k \in DOMAIN rwv_store : k < rwv_count

C17_Witness ==
    /\ store_readers # {}
    /\ rwv_count \in DOMAIN rwv_store
    /\ rwv_count >= 1

\* C18: whenever count() returns c, every version v < c has been inserted:
\* it is in the map unless a drop has removed it.
C18_CountNotAhead ==
    (rwv_ret.op = "count" /\ rwv_ret.val # ErrCountPoisoned) =>
        \A v \in 0..(rwv_ret.val[2] - 1) :
            v \in DOMAIN rwv_store \/ v \in rwv_dropped

C18_Witness ==
    /\ rwv_ret = Returned("count", Ok(2))
    /\ rwv_dropped # {}
    /\ rwv_dropped \subseteq 0..1
    /\ DOMAIN rwv_store # {}
    /\ \E t \in Threads : th_pc[t] = "u_incr"

\* what count(), store(), drop() and update() do in the step where they try
\* to take a lock
C20_Step ==
    \A t \in Threads :
        /\ (rwv_ret'.op = "count" /\ Count(t)) =>
              /\ rwv_ret'.val = ErrCountPoisoned <=> count_poisoned
              /\ ~count_poisoned => rwv_ret' = Returned("count", Ok(rwv_count))
              /\ UNCHANGED <<rwv_store, rwv_count, count_lock, store_writer>>
        /\ (rwv_ret'.op = "store" /\ Store(t)) =>
              /\ rwv_ret'.val = ErrStorePoisoned <=> store_poisoned
              /\ store_poisoned => store_readers' = store_readers
              /\ UNCHANGED <<rwv_store, rwv_count, count_lock, store_writer>>
        /\ (/\ th_pc[t] = "idle" /\ th_pc'[t] \in {"idle", "d_remove"}
            /\ \E version \in 0..MaxUpdates : DropLock(t, version)) =>
              /\ (th_pc'[t] = "idle" /\ rwv_ret' = Returned("drop", ErrStorePoisoned))
                    <=> store_poisoned
              /\ store_poisoned => store_writer' = None
              /\ UNCHANGED <<rwv_store, rwv_count, count_lock>>
        /\ (th_pc[t] = "u_lock_count" /\ UpdateLockCount(t)) =>
              /\ (th_pc'[t] = "idle" /\ rwv_ret' = Returned("update", ErrCountPoisoned))
                    <=> count_poisoned
              /\ count_poisoned => count_lock' = None
              /\ UNCHANGED <<rwv_store, rwv_count, store_writer>>
        /\ (th_pc[t] = "u_lock_store" /\ UpdateLockStore(t)) =>
              /\ (th_pc'[t] = "idle" /\ rwv_ret' = Returned("update", ErrStorePoisoned))
                    <=> store_poisoned
              /\ store_poisoned =>
                    /\ count_lock' = None /\ store_writer' = None
                    /\ rwv_count = th_version[t]
                    /\ th_version[t] \notin DOMAIN rwv_store
              /\ UNCHANGED <<rwv_store, rwv_count, count_poisoned>>

\* C20: count() fails with CountPoisoned iff the count mutex is poisoned;
\* store() and drop() fail with StorePoisoned iff the store lock is
\* poisoned; update() fails with CountPoisoned iff the count mutex is
\* poisoned when it locks it, and otherwise with StorePoisoned iff the store
\* lock is poisoned when it locks that.  A call that fails changes neither
\* the map nor the counter and leaves no lock held; the failed update has
\* inserted nothing under its version, which is still the next one.
C20_PoisonPerLock == [][C20_Step]_vars

C20_Witness ==
    /\ rwv_ret = Returned("update", ErrStorePoisoned)
    /\ store_poisoned
    /\ ~count_poisoned
    /\ count_lock = None
    /\ rwv_count >= 1

\* --------------------------------------------------- RwFixed properties
\* C14: used from one thread, RwFixed has the external contract of Fixed:
\* after the same constructor call and the same sequence of push, pop,
\* newest, oldest, stored and get calls, every call has returned the same
\* result on both (Fixed's Err(()) of get being RwFixed's Err(Index)).
C14_SameResults ==
    op # "init" =>
        /\ rwf_ret.op = op
        /\ IF op \in {"new", "with_list", "with_index"}
           THEN (fixed = None) = (rwf_inner = None)
           ELSE IF op = "get"
           THEN IF result = Err THEN rwf_ret.val = ErrIndex
                ELSE rwf_ret.val = result
           ELSE rwf_ret.val = Ok(result)

C15_Locked ==
    /\ \A t \in Threads : rwf_handle[t] # None => t \in rwf_readers
    /\ \A t \in Threads : rwf_pc[t] \in {"push", "pop"} => rwf_writer = Some(t)
    /\ rwf_writer # None => rwf_readers = {}

C15_Step ==
    /\ (\E t \in Threads : rwf_handle[t] # None) => rwf_inner' = rwf_inner
    /\ rwf_writer # None => rwf_handle' = rwf_handle

\* C15: push and pop hold the RwFixed lock exclusively from their lock call
\* to their return, and a Value or Iter handle holds it shared for as long as
\* it is alive.  Several handles may be alive at once, but while one is, no
\* push or pop is in progress and no step changes the buffer; and while a
\* push or pop is in progress no handle is obtained.
C15_ReadersExcludeWriters == []C15_Locked /\ [][C15_Step]_vars

C15_Witness ==
    /\ Inner.stored = N
    /\ \E t, u \in Threads :
          /\ t # u
          /\ rwf_handle[t] # None /\ rwf_handle[t][1].kind = "Value"
          /\ rwf_handle[u] # None /\ rwf_handle[u][1].kind = "Iter"
          /\ rwf_readers = {t, u}

\* C16: a reference taken out of a Value handle is read only while the
\* handle's read guard is held: no thread reads through a reference after
\* its handle was dropped and a push or pop has then changed the buffer.
C16_NoReadAfterRelease ==
    rwf_deref # None => ~(rwf_deref[1].released /\ rwf_deref[1].written)

\* thread t begins push or pop, or makes a whole call of newest, oldest,
\* iter or stored
RwLockingCall(t) ==
    \/ \E v \in Values : RwPushLock(t, v)
    \/ RwPopLock(t)
    \/ RwNewest(t)
    \/ RwOldest(t)
    \/ RwIter(t)
    \/ RwStored(t)

\* the call fails with Poisoned and changes neither the buffer nor the
\* guards and handles
RwFailsPoisoned ==
    /\ rwf_ret'.val = ErrPoisoned
    /\ UNCHANGED <<rwf_inner, rwf_writer, rwf_readers, rwf_handle>>

\* while the lock is not poisoned nothing returns Poisoned
RwNoSpuriousPoisoned ==
    ~rwf_poisoned => (rwf_ret' # rwf_ret => rwf_ret'.val # ErrPoisoned)

\* C19 as stated: on a poisoned lock every operation, get for any distance
\* included, returns Poisoned and leaves the buffer unchanged; on a lock
\* that is not poisoned no operation returns Poisoned.
C19_AllPoisoned ==
    [][/\ \A t \in Threads :
            (rwf_poisoned /\ (\/ RwLockingCall(t)
                              \/ \E given \in 0..(MaxRwN + 1) : RwGet(t, given)))
                => RwFailsPoisoned
       /\ RwNoSpuriousPoisoned]_vars

\* C19: on a poisoned lock push, pop, newest, oldest, stored, iter and get
\* for a distance below N return Poisoned and leave the buffer unchanged;
\* get for a distance of N or more returns Index, poisoned or not; on a lock
\* that is not poisoned no operation returns Poisoned.
C19_PoisonedOrIndex ==
    [][/\ \A t \in Threads :
            /\ (rwf_poisoned /\ (\/ RwLockingCall(t)
                                 \/ \E given \in 0..(N - 1) : RwGet(t, given)))
                  => RwFailsPoisoned
            /\ (/\ rwf_ret'.op = "get"
                /\ \E given \in N..(MaxRwN + 1) : RwGet(t, given))
                  => /\ rwf_ret' = Returned("get", ErrIndex)
                     /\ UNCHANGED <<rwf_inner, rwf_writer, rwf_readers,
                                    rwf_handle>>
       /\ RwNoSpuriousPoisoned]_vars

C19_Witness ==
    /\ rwf_poisoned
    /\ rwf_ret = Returned("get", ErrPoisoned)
    /\ Inner.stored >= 1

\* ------------------------------------------------- serde specifications
\* every value the four fields of a Fixed<T, N> can hold
FixedStates ==
    [list : [Slots -> {None} \cup {Some(v) : v \in Values}],
     next : 0..N, oldest : 0..N, stored : 0..N]

\* the maps with versions below count, gaps included
Stores(count) == UNION {[D -> Values] : D \in SUBSET (0..(count - 1))}

VersionedStates ==
    UNION {{[store |-> m, count |-> c] : m \in Stores(c)} : c \in 0..MaxCount}

RwVersionedStates ==
    {[store |-> s.store, count |-> s.count,
      store_poisoned |-> sp, count_poisoned |-> cp] :
        s \in VersionedStates, sp \in BOOLEAN, cp \in BOOLEAN}

SerdeInit ==
    N \in 1..MaxN /\ NoCall /\ NoFixed /\ NoVersioned /\ NoRwVersioned
    /\ NoRwFixed /\ NoExt

SerdeNext ==
    \/ NoSerde /\ \E f \in FixedStates, format \in Formats :
                      SerializeFixed(f, format)
    \/ NoSerde /\ \E s \in VersionedStates, format \in Formats :
                      SerializeVersioned(s, format)
    \/ NoSerde /\ \E rw \in RwVersionedStates, format \in Formats :
                      SerializeRwVersioned(rw, format)
    \/ Deserialize
    \/ SerdeDrop

SerdeSpec == SerdeInit /\ [][SerdeNext]_vars

SeqsUpTo(S, n) == UNION {[1..k -> S] : k \in 0..n}

\* slot sequences one short of N, of N and one longer than N
PayloadLists == {SerSeq([i \in 1..n |-> SerNone]) : n \in (N - 1)..(N + 1)}

PayloadNum(key) ==
    CASE key = "next" -> 0 [] key = "oldest" -> 1 [] key = "stored" -> 2

PayloadEntries ==
    {<<"list", l>> : l \in PayloadLists}
        \cup {<<k, SerNum(PayloadNum(k))>> : k \in {"next", "oldest", "stored"}}

MaxFields == Len(Fixed_STRUCT_FIELDS) + 1

\* payloads of up to one field more than the struct has, in either shape
FixedPayloads ==
    {[shape |-> "map", body |-> b] : b \in SeqsUpTo(PayloadEntries, MaxFields)}
        \cup {[shape |-> "seq", body |-> b] :
                b \in SeqsUpTo({e[2] : e \in PayloadEntries}, MaxFields)}

FixedPayloadNext ==
    \/ NoSerde /\ \E payload \in FixedPayloads : ReceiveFixed(payload)
    \/ Deserialize
    \/ SerdeDrop

FixedPayloadSpec == SerdeInit /\ [][FixedPayloadNext]_vars

\* the fields of the restored structure equal those of the original
SameFields(orig, back) ==
    IF orig.type = "Fixed"
    THEN /\ back.list = orig.value.list
         /\ back.next = orig.value.next
         /\ back.oldest = orig.value.oldest
         /\ back.stored = orig.value.stored
    ELSE /\ back.store = orig.value.store
         /\ back.count = orig.value.count

RoundTrips ==
    /\ IsOk(ser_payload[1].out)
    /\ ser_back # None => IsOk(ser_back[1]) /\ SameFields(ser_orig[1], ser_back[1][2])

\* C21 as stated: every Fixed, Versioned and RwVersioned state can be
\* serialized, and deserializing the payload gives a structure whose
\* fields all equal the original's.
C21_RoundTripAny == ser_orig # None => RoundTrips

LockPoisoned(orig) ==
    /\ orig.type = "RwVersioned"
    /\ orig.value.store_poisoned \/ orig.value.count_poisoned

\* C21: every Fixed state, every Versioned state and every RwVersioned
\* state whose locks are not poisoned is serialized into a payload that
\* deserializes into a structure whose fields all equal the original's,
\* gaps in the store included; serializing an RwVersioned with a poisoned
\* lock fails and produces no payload.
C21_RoundTrip ==
    ser_orig # None =>
        IF LockPoisoned(ser_orig[1]) THEN ~IsOk(ser_payload[1].out)
        ELSE RoundTrips

C21_Witness ==
    /\ ser_orig # None
    /\ ser_back # None
    /\ ser_orig[1].type = "RwVersioned"
    /\ ~LockPoisoned(ser_orig[1])
    /\ DOMAIN ser_orig[1].value.store = {0, 2}
    /\ ser_orig[1].value.count = 3
    /\ ser_payload[1].out[2].shape = "map"
    /\ IsOk(ser_back[1])

Occurrences(payload, key) ==
    IF payload.shape = "map"
    THEN Cardinality({i \in 1..Len(payload.body) : payload.body[i][1] = key})
    ELSE LET at == CHOOSE i \in 1..4 : Fixed_STRUCT_FIELDS[i] = key
         IN  IF Len(payload.body) >= at THEN 1 ELSE 0

\* the values the payload carries for a field
Carried(payload, key) ==
    IF payload.shape = "map"
    THEN {payload.body[i][2] : i \in {j \in 1..Len(payload.body) :
                                         payload.body[j][1] = key}}
    ELSE LET at == CHOOSE i \in 1..4 : Fixed_STRUCT_FIELDS[i] = key
         IN  IF Len(payload.body) >= at THEN {payload.body[at]} ELSE {}

WellTyped(payload) ==
    /\ \A v \in Carried(payload, "list") : v[1] = "seq"
    /\ \A k \in {"next", "oldest", "stored"} :
           \A v \in Carried(payload, k) : v[1] = "u64"

Complete(payload) ==
    /\ \A k \in Range(Fixed_STRUCT_FIELDS) : Occurrences(payload, k) = 1
    /\ payload.shape = "seq" => Len(payload.body) = 4
    /\ WellTyped(payload)
    /\ \A v \in Carried(payload, "list") : Len(v[2]) = N

\* C22: deserializing a Fixed<T, N> fails, and produces no buffer, when
\* the slot sequence the payload carries has a length other than N and
\* when one of list, next, oldest, stored is missing or given twice; it
\* succeeds, with the four values of the payload, when each of the four
\* is present once and the slot sequence has exactly N entries.
C22_LengthAndFields ==
    (ser_orig = None /\ ser_back # None) =>
        LET payload == ser_payload[1].out[2]
            back    == ser_back[1]
        IN  /\ (\E v \in Carried(payload, "list") :
                    v[1] = "seq" /\ Len(v[2]) # N) => ~IsOk(back)
            /\ (\E k \in Range(Fixed_STRUCT_FIELDS) :
                    Occurrences(payload, k) # 1) => ~IsOk(back)
            /\ Complete(payload) =>
                   /\ IsOk(back)
                   /\ Slice_serialize(back[2].list)
                          \in Carried(payload, "list")
                   /\ \A k \in {"next", "oldest", "stored"} :
                          SerNum(back[2][k]) \in Carried(payload, k)

C22_Witness ==
    /\ ser_orig = None
    /\ ser_back # None
    /\ ser_payload[1].out[2].shape = "map"
    /\ Len(ser_payload[1].out[2].body) = 5
    /\ \A k \in Range(Fixed_STRUCT_FIELDS) :
           Occurrences(ser_payload[1].out[2], k) >= 1
    /\ Occurrences(ser_payload[1].out[2], "stored") = 2
    /\ \A v \in Carried(ser_payload[1].out[2], "list") : Len(v[2]) = N
    /\ ser_back[1] = DeErr("duplicate_field")

\* ------------------------------------------------ Varied specifications
VariedInit ==
    N = 1 /\ NoCall /\ NoFixed /\ NoVersioned /\ NoRwVersioned
    /\ NoRwFixed /\ NoExt

\* the calls that read the buffer
VariedQuery == VrNewest \/ VrOldest \/ VrIter

\* grow and shrink, the capacity kept within MaxCap and the amount
\* shrink is given within the capacity
VariedResize ==
    /\ varied # None
    /\ \/ \E amount \in 0..(MaxCap - W.cap) : VrGrow(amount)
       \/ \E amount \in 0..W.cap : VrShrink(amount)

VariedPush == vr_count < MaxVrPush /\ VrPush

VariedNext ==
    \/ VrNew
    \/ \E capacity \in 0..MaxCap : VrWithCapacity(capacity)
    \/ \E cap \in 0..MaxCap : \E len \in 0..cap : VrWithList(len, cap)
    \/ \E cap \in 0..MaxCap : \E len \in 0..cap, index \in 0..(MaxCap + 1) :
           VrWithIndex(len, cap, index)
    \/ VariedPush
    \/ VariedQuery
    \/ VariedResize

VariedSpec == VariedInit /\ [][VariedNext]_vars

\* buffers made by with_capacity only
VariedCapNext ==
    \/ \E capacity \in 0..MaxCap : VrWithCapacity(capacity)
    \/ VariedPush
    \/ VariedQuery
    \/ VariedResize

VariedCapSpec == VariedInit /\ [][VariedCapNext]_vars

\* with_capacity(c) for c >= 1, then pushes and reads only
VariedPushNext ==
    \/ \E capacity \in 1..MaxCap : VrWithCapacity(capacity)
    \/ VariedPush
    \/ VariedQuery

VariedPushSpec == VariedInit /\ [][VariedPushNext]_vars

\* ---------------------------------------------------- Varied properties
\* values are numbered in the order they were handed over: the least
\* stored value is the least recently pushed one
Oldest(w) == CHOOSE x \in Range(w.list) : \A y \in Range(w.list) : x <= y
Newest(w) == CHOOSE x \in Range(w.list) : \A y \in Range(w.list) : x >= y
OldestFirst(w) == Ascending(Range(w.list))
AtCapacity(w) == Len(w.list) = w.cap /\ w.cap > 0
LastCall(name) == vr_call # None /\ vr_call[1].op = name

\* C23: on a buffer made by with_capacity(c), c >= 1, and only pushed
\* to, the first c pushes append and return none, and the (c+i)-th push
\* returns the i-th value pushed and moves the cursor on by one modulo
\* the length.
C23_PushOnly ==
    LastCall("push") =>
        LET call == vr_call[1]
        IN  /\ ~call.panicked
            /\ IF call.arg <= W.cap
               THEN /\ call.val = None
                    /\ W.list = Append(call.before.list, call.arg)
                    /\ W.index = 0
               ELSE /\ call.val = Some(call.arg - W.cap)
                    /\ W.index = (call.before.index + 1) % Len(W.list)

C23_Witness ==
    /\ LastCall("push")
    /\ W.cap = 2
    /\ vr_call[1].arg = 5
    /\ vr_call[1].val = Some(3)
    /\ W.index = 1

\* C24: in every state at capacity reached by with_capacity, push, grow
\* and shrink the slot at the cursor holds the oldest value and the slot
\* before it (modulo the length) the newest, oldest() and newest()
\* return the least and the most recently pushed surviving value, and a
\* push displaces the oldest value.
C24_CursorAtOldest ==
    (varied # None /\ AtCapacity(W)) =>
        /\ W.index < Len(W.list)
        /\ W.list[W.index + 1] = Oldest(W)
        /\ W.list[((W.index + Len(W.list) - 1) % Len(W.list)) + 1] = Newest(W)
        /\ Varied_oldest(W).rtn = Some(Oldest(W))
        /\ Varied_newest(W).rtn = Some(Newest(W))
        /\ Varied_push(W, vr_count + 1).rtn = Some(Oldest(W))

\* C25: in every reachable state iter() yields every stored value once,
\* from the newest to the oldest.
C25_IterNewestFirst ==
    varied # None =>
        VariedIter_collect(Varied_iter(W)) = Reverse(OldestFirst(W))

\* C26: after grow(amount) the capacity is the capacity before plus
\* amount, at capacity and below it.
C26_GrowAddsAmount ==
    LastCall("grow") => W.cap = vr_call[1].before.cap + vr_call[1].arg

\* C27: grow on a buffer at capacity leaves the backing sequence oldest
\* first, and grow in any state leaves the stored values, newest() and
\* oldest() as they were.
C27_GrowKeepsOrder ==
    LastCall("grow") =>
        LET before == vr_call[1].before
        IN  /\ AtCapacity(before) => W.list = OldestFirst(before)
            /\ Range(W.list) = Range(before.list)
            /\ Varied_newest(W) = [Varied_newest(before) EXCEPT !.self = W]
            /\ Varied_oldest(W) = [Varied_oldest(before) EXCEPT !.self = W]

\* C28: shrink(amount) that brings the capacity below the length removes
\* the length - (capacity - amount) oldest values and returns them from
\* the oldest to the newest, the newest values stay and newest() is
\* unchanged; otherwise it removes nothing and returns an empty list.
C28_ShrinkRemovesOldest ==
    (LastCall("shrink") /\ ~vr_call[1].panicked) =>
        LET before   == vr_call[1].before
            len      == Len(before.list)
            capacity == before.cap - vr_call[1].arg
        IN  IF capacity < len
            THEN /\ vr_call[1].val
                        = SubSeq(OldestFirst(before), 1, len - capacity)
                 /\ Range(W.list)
                        = Range(SubSeq(OldestFirst(before),
                                       len - capacity + 1, len))
                 /\ capacity > 0 => Varied_newest(W).rtn
                                        = Varied_newest(before).rtn
            ELSE vr_call[1].val = <<>> /\ W = before

\* C29: after shrink(amount), amount <= capacity, the capacity is the
\* capacity before minus amount, the buffer holds no more than that, and
\* once it holds that many a push displaces the oldest value.
C29_ShrinkReducesCapacity ==
    (LastCall("shrink") /\ ~vr_call[1].panicked) =>
        LET capacity == vr_call[1].before.cap - vr_call[1].arg
        IN  /\ W.cap = capacity
            /\ Len(W.list) <= capacity
            /\ (Len(W.list) = capacity /\ capacity > 0) =>
                   Varied_push(W, vr_count + 1).rtn = Some(Oldest(W))

\* ------------------------------------------- RwVersioned::update, order
\* thread t is at one of the given statements of update
At(t, steps) == th_pc[t] \in steps

\* C30: every update takes the counter lock, reads the counter, takes
\* the write lock of the entries, inserts, releases the entries lock,
\* increments the counter and releases the counter lock, in this order:
\* from the read to the increment the thread holds the counter lock, the
\* counter still has the value it read, and no other thread is between
\* its own read and increment.
C30_CounterHeld ==
    \A t \in Threads :
        /\ At(t, {"u_read", "u_lock_store", "u_insert", "u_unlock_store",
                  "u_incr", "u_unlock_count"}) => count_lock = Some(t)
        /\ At(t, {"u_lock_store", "u_insert", "u_unlock_store", "u_incr"})
               => th_version[t] = rwv_count
        /\ At(t, {"u_insert", "u_unlock_store"}) => store_writer = Some(t)
        /\ At(t, {"u_lock_count", "u_read", "u_lock_store", "u_incr",
                  "u_unlock_count"}) => store_writer # Some(t)
        /\ (At(t, {"u_unlock_store", "u_incr", "u_unlock_count"})
                /\ th_version[t] \notin rwv_dropped)
               => /\ th_version[t] \in DOMAIN rwv_store
                  /\ rwv_store[th_version[t]] = th_value[t]
        /\ At(t, {"u_unlock_count"}) => rwv_count = th_version[t] + 1
        /\ \A u \in Threads \ {t} :
               ~(/\ At(t, {"u_lock_store", "u_insert", "u_unlock_store",
                           "u_incr", "u_unlock_count"})
                 /\ At(u, {"u_read", "u_lock_store", "u_insert",
                           "u_unlock_store", "u_incr", "u_unlock_count"}))

C30_Witness ==
    \E t \in Threads : \E u \in Threads \ {t} :
        /\ th_pc[t] = "u_incr"
        /\ th_pc[u] = "u_lock_count"
        /\ count_lock = Some(t)
        /\ rwv_count >= 1
        /\ th_version[t] = rwv_count
        /\ th_version[t] \in DOMAIN rwv_store

\* ------------------------------------------------ Fixed, state and frame
\* the slots oldest, oldest + 1, ..., oldest + stored - 1 modulo N
StoredSlots(f) == {(f.oldest + k) % N : k \in 0..(f.stored - 1)}

\* C31: in every state of a Fixed buffer reached from new, with_list or
\* with_index by push and pop, next and oldest are below N, stored is at
\* most N, next is (oldest + stored) mod N, the occupied slots are
\* exactly the stored slots from oldest on, and with stored > 0 the slot
\* before next holds the newest value.
C31_FixedShape ==
    fixed # None =>
        /\ F.next \in Slots
        /\ F.oldest \in Slots
        /\ F.stored \in 0..N
        /\ F.next = (F.oldest + F.stored) % N
        /\ \A i \in Slots : F.list[i] # None <=> i \in StoredSlots(F)
        /\ F.stored = Cardinality({i \in Slots : F.list[i] # None})
        /\ F.stored > 0 =>
               /\ Fixed_newest_index(F) = (F.next + N - 1) % N
               /\ Fixed_newest(F) = Some(Last(queue))

C31_Witness ==
    /\ fixed # None
    /\ N = 3
    /\ op = "pop"
    /\ F.stored = 2
    /\ F.oldest = 2
    /\ F.next = 1
    /\ F.list[0] # None
    /\ F.list[1] = None

\* C32: a push on a buffer that is not full leaves oldest unchanged; a
\* push on a full buffer overwrites the slot of the oldest value and
\* moves next and oldest on by one modulo N; a pop on a buffer that is
\* not empty leaves next and every slot but the oldest unchanged; a pop
\* on an empty buffer changes nothing.
C32_Frame ==
    /\ (op = "push" /\ prev[1].stored < N) =>
           /\ F.oldest = prev[1].oldest
           /\ F.stored = prev[1].stored + 1
    /\ (op = "push" /\ prev[1].stored = N) =>
           /\ F.list = [prev[1].list EXCEPT ![prev[1].oldest] = Some(arg)]
           /\ F.next = (prev[1].next + 1) % N
           /\ F.oldest = (prev[1].oldest + 1) % N
           /\ F.stored = N
    /\ (op = "pop" /\ prev[1].stored > 0) =>
           /\ F.next = prev[1].next
           /\ \A i \in Slots \ {prev[1].oldest} : F.list[i] = prev[1].list[i]
    /\ (op = "pop" /\ prev[1].stored = 0) => F = prev[1]

C32_Witness ==
    /\ op = "push"
    /\ N = 3
    /\ prev[1].stored = N
    /\ prev[1].oldest = 1
    /\ F.oldest = 2
    /\ F.next = 2

\* ----------------------------------------------- RwFixed, state and FIFO
\* C33: in every state of an RwFixed reached by push and pop, oldest is
\* the slot of the value that has been stored longest (after a push that
\* found the buffer full, oldest = next), stored is the number of
\* occupied slots, and oldest() and pop() return the least recently
\* pushed value that is still stored.
C33_OldestLive ==
    rwf_inner # None =>
        /\ Inner.stored = Cardinality({i \in Slots : Inner.list[i] # None})
        /\ Inner.stored > 0 => Inner.list[Inner.oldest] = Some(Head(queue))
        /\ (rwf_ret.op = "push" /\ rwf_ret.val # Ok(None))
               => Inner.oldest = Inner.next
        /\ rwf_ret.op = "oldest" =>
               rwf_ret.val = Ok(IF queue = <<>> THEN None
                                ELSE Some(Head(queue)))
        /\ rwf_ret.op = "pop" => rwf_ret.val = Ok(q_result)

\* an RwFixed made by new() that is only pushed to and read by newest()
RwFixedPushNext ==
    \/ SeqNew
    \/ \E v \in Values : SeqPush(v)
    \/ SeqNewest

RwFixedPushSpec == FixedInit /\ [][RwFixedPushNext]_vars

\* C34: on an RwFixed that starts empty and is only pushed to, a push
\* returns none while fewer than N values have been pushed and after
\* that the value pushed N pushes earlier, and newest() returns the
\* value pushed last.
C34_PushFifo ==
    /\ rwf_ret.op = "push" =>
           /\ rwf_ret.val = Ok(q_result)
           /\ Seen(Inner, RwFixed_newest(Inner)) = Ok(Some(arg))
    /\ rwf_ret.op = "newest" =>
           rwf_ret.val = Ok(IF queue = <<>> THEN None ELSE Some(Last(queue)))

C34_Witness ==
    /\ rwf_ret.op = "push"
    /\ N = 2
    /\ queue = <<1, 2>>
    /\ rwf_ret.val = Ok(Some(2))
    /\ Inner.oldest = 0
    /\ Inner.next = 1

\* The threads of RwVersionedSpec, where every update call passes as its
\* value the pair <<number of the call, number of update calls that had
\* returned Ok when it began>>, so that the entry a call leaves in rwv_log
\* tells which calls had returned before it began.
RwVersionedTimedNext ==
    \/ \E t \in Threads : UpdateCall(t, <<started + 1, Len(rwv_log)>>)
    \/ \E t \in Threads : UpdateLockCount(t)
    \/ \E t \in Threads : UpdateRead(t)
    \/ \E t \in Threads : UpdateLockStore(t)
    \/ \E t \in Threads : UpdateInsert(t)
    \/ \E t \in Threads : UpdateUnlockStore(t)
    \/ \E t \in Threads : UpdateIncr(t)
    \/ \E t \in Threads : UpdateUnlockCount(t)
    \/ \E t \in Threads : Count(t)
    \/ \E t \in Threads : Store(t)
    \/ \E t \in Threads : StoreRelease(t)
    \/ \E t \in Threads, version \in 0..MaxUpdates : DropLock(t, version)
    \/ \E t \in Threads : DropRemove(t)

RwVersionedTimedSpec == RwVersionedInit /\ [][RwVersionedTimedNext]_vars

\* thread t is inside a call of update
InUpdate(t) == \E i \in 1..Len(UpdateSteps) : th_pc[t] = UpdateSteps[i]

\* C35: an update call that returned before another update call began got
\* the strictly smaller version, and whenever no update call is in
\* progress the counter equals the number of update calls that returned
\* Ok.
C35_RealTimeOrder ==
    /\ \A i, j \in 1..Len(rwv_log) :
           i <= rwv_log[j][2][2] => rwv_log[i][1] < rwv_log[j][1]
    /\ (\A t \in Threads : ~InUpdate(t)) => rwv_count = Len(rwv_log)

C35_Witness ==
    /\ Len(rwv_log) = 3
    /\ rwv_log[2][2][2] = 0
    /\ rwv_log[3][2][2] = 1
    /\ rwv_log[3][1] = 2
    /\ \A t \in Threads : ~InUpdate(t)
    /\ rwv_count = 3

\* A call of count() begins: the thread is inside the call until it has the
\* count mutex.
CountCall(t) ==
    /\ th_pc[t] = "idle"
    /\ th_pc' = [th_pc EXCEPT ![t] = "c_lock"]
    /\ UNCHANGED <<rwvData, store_readers, th_version, th_value, rwv_ret,
                   rwvOthers>>

\* self.count.lock(): the thread waits until the mutex is free, copies the
\* counter and returns, dropping the guard
CountLock(t) ==
    /\ th_pc[t] = "c_lock"
    /\ count_lock = None
    /\ Return(t, "count", RwVersioned_count_result(count_poisoned, rwv_count))
    /\ UNCHANGED <<rwvData, store_readers, rwvOthers>>

\* A call of store() begins.
StoreCall(t) ==
    /\ th_pc[t] = "idle"
    /\ t \notin store_readers
    /\ th_pc' = [th_pc EXCEPT ![t] = "s_lock"]
    /\ UNCHANGED <<rwvData, store_readers, th_version, th_value, rwv_ret,
                   rwvOthers>>

\* self.store.read(): the thread waits until no writer holds the lock
StoreRead(t) ==
    /\ th_pc[t] = "s_lock"
    /\ store_writer = None
    /\ IF store_poisoned
       THEN /\ Return(t, "store", ErrStorePoisoned)
            /\ UNCHANGED store_readers
       ELSE /\ Return(t, "store", Ok("guard"))
            /\ store_readers' = store_readers \cup {t}
    /\ UNCHANGED <<rwvData, rwvOthers>>

\* A call of drop(version) begins.
DropCall(t, version) ==
    /\ th_pc[t] = "idle"
    /\ th_pc' = [th_pc EXCEPT ![t] = "d_lock"]
    /\ th_value' = [th_value EXCEPT ![t] = version]
    /\ UNCHANGED <<rwvData, store_readers, th_version, rwv_ret, rwvOthers>>

\* self.store.write(): the thread waits until no reader and no writer holds
\* the lock
DropWrite(t) ==
    /\ th_pc[t] = "d_lock"
    /\ store_writer = None
    /\ store_readers = {}
    /\ IF store_poisoned
       THEN /\ Return(t, "drop", ErrStorePoisoned)
            /\ UNCHANGED store_writer
       ELSE /\ store_writer' = Some(t)
            /\ th_pc' = [th_pc EXCEPT ![t] = "d_remove"]
            /\ UNCHANGED <<th_version, th_value, rwv_ret>>
    /\ UNCHANGED <<rwv_store, rwv_count, count_lock, count_poisoned,
                   store_readers, store_poisoned, started, rwv_log,
                   rwv_dropped, rwvOthers>>

\* the next statement of the call thread t is inside, or the release of the
\* read guard it holds
Step(t) ==
    \/ UpdateLockCount(t)
    \/ UpdateRead(t)
    \/ UpdateLockStore(t)
    \/ UpdateInsert(t)
    \/ UpdateUnlockStore(t)
    \/ UpdateIncr(t)
    \/ UpdateUnlockCount(t)
    \/ CountLock(t)
    \/ StoreRead(t)
    \/ StoreRelease(t)
    \/ DropWrite(t)
    \/ DropRemove(t)

\* the threads that may begin a call: those that hold no read guard
Free == Threads \ store_readers

\* no thread is inside update, drop or count
Quiet == \A t \in Threads : th_pc[t] \in {"idle", "s_lock"}

RwVersionedCallsNext ==
    \/ \E t \in Free : UpdateCall(t, started + 1)
    \/ \E t \in Free : CountCall(t)
    \/ Quiet /\ \E t \in Free : StoreCall(t)
    \/ \E t \in Free, version \in 0..MaxUpdates : DropCall(t, version)
    \/ \E t \in Threads : Step(t)

\* Threads calling update, count and drop, each call begun and then
\* carried out statement by statement, waiting where a lock is taken.  The
\* read guards come from store() calls begun while no thread is inside
\* update, drop or count, and a thread that holds one releases it before its
\* next call.
RwVersionedCallsSpec == RwVersionedInit /\ [][RwVersionedCallsNext]_vars

\* The same under fair scheduling: a thread whose next statement can be
\* executed again and again does execute it.  Taking a lock is enabled only
\* while the lock is free, hence strong fairness.
RwVersionedFairSpec ==
    RwVersionedCallsSpec /\ \A t \in Threads : SF_vars(Step(t))

\* thread t waits for a lock that another thread holds
Blocked(t) ==
    \/ th_pc[t] \in {"u_lock_count", "c_lock"} /\ count_lock # None
    \/ /\ th_pc[t] \in {"u_lock_store", "d_lock"}
       /\ (store_writer # None \/ store_readers # {})
    \/ th_pc[t] = "s_lock" /\ store_writer # None

RwVersionedGuardNext ==
    \/ RwVersionedCallsNext
    \/ \E t \in store_readers : CountCall(t)

RwVersionedGuardSpec == RwVersionedInit /\ [][RwVersionedGuardNext]_vars

\* C37: a thread that holds a read guard and waits in count() and a thread
\* that holds the count mutex and waits in update for the store never wait
\* for each other.
C37_GuardedCount ==
    \A t, u \in Threads :
        ~ /\ t \in store_readers
          /\ th_pc[t] = "c_lock"
          /\ count_lock = Some(u)
          /\ th_pc[u] = "u_lock_store"

\* buffers made by new(), with_capacity and with_list, then pushes and
\* reads only
VariedCtorNext ==
    \/ VrNew
    \/ \E capacity \in 0..MaxCap : VrWithCapacity(capacity)
    \/ \E cap \in 0..MaxCap : \E len \in 0..cap : VrWithList(len, cap)
    \/ VariedPush
    \/ VariedQuery

VariedCtorSpec == VariedInit /\ [][VariedCtorNext]_vars

\* C38: push on a buffer made by new(), with_capacity or with_list, of
\* capacity zero included, does not panic and returns none or a value
\* that was stored.
C38_PushCompletes ==
    LastCall("push") =>
        /\ ~vr_call[1].panicked
        /\ \/ vr_call[1].val = None
           \/ \E i \in 1..Len(vr_call[1].before.list) :
                  vr_call[1].val = Some(vr_call[1].before.list[i])

\* buffers made by with_index, then pushes and reads only
VariedIndexNext ==
    \/ \E cap \in 0..MaxCap : \E len \in 0..cap, index \in 0..(MaxCap + 1) :
           VrWithIndex(len, cap, index)
    \/ VariedPush
    \/ VariedQuery

VariedIndexSpec == VariedInit /\ [][VariedIndexNext]_vars

\* C39: in a full non-empty buffer that with_index accepted the cursor is
\* less than the length, and oldest(), newest() and push do not panic.
C39_CursorInRange ==
    (varied # None /\ Len(W.list) = W.cap /\ W.cap > 0) =>
        /\ W.index < Len(W.list)
        /\ ~Varied_oldest(W).panicked
        /\ ~Varied_newest(W).panicked
        /\ ~Varied_push(W, vr_count + 1).panicked

\* C40: a Fixed that deserialization returned has next and oldest below N
\* and stored at most N, so that every slot its operations index exists.
C40_RestoredInRange ==
    (/\ ser_payload # None
     /\ ser_payload[1].type = "Fixed"
     /\ ser_back # None
     /\ IsOk(ser_back[1])) =>
        LET f == ser_back[1][2]
        IN  /\ f.next < N
            /\ f.oldest < N
            /\ f.stored <= N
            /\ {f.next, f.oldest, Fixed_newest_index(f)} \subseteq DOMAIN f.list

====
